---- MODULE Spec2Model ----
(***************************************************************************)
(* Middleware of http-common-go: the trace-aware Logger.Middleware         *)
(* (pkg/log/logger) with Logger.Format, the status-capturing               *)
(* response.ResponseLogger it wraps the writer with, the earlier           *)
(* Logger.Middleware that formats the shared Logger in place, the          *)
(* recovery middleware installed ahead of the logger, and CORSMiddleware   *)
(* at the head of a gin handler chain. Beside the middleware: the Redis    *)
(* JSON cache (pkg/cache), the Kafka consumer group's Run and              *)
(* ConsumeClaim (pkg/messaging/kafka), and the log line formatter          *)
(* (extractPrefix, needsQuoting, prefixFieldClashes, Format).              *)
(*                                                                         *)
(* Text that the code parses or slices (header values, ids) is a sequence *)
(* of one-character strings; text that is only carried around (method,    *)
(* path, field names, messages) is a string.                              *)
(***************************************************************************)
EXTENDS Integers, Sequences, FiniteSets, TLC

\* ------------------------------------------------------------------ bounds
\* Number of requests in flight on the one shared Logger.
NumRequests == 2
\* Most WriteHeader calls one downstream handler makes.
MaxWriteHeader == 2

\* Most writes to the body by one request's handler.
MaxWrite == 1

\* Most records one request's handler writes through the context's Logger.
MaxHandlerLogs == 1

\* Most messages delivered on one claim of a consumer group session.
MaxMessages == 2

\* Most times Run invokes Consume.
MaxConsume == 2

\* Longest generated message given to extractPrefix.
MaxMsgLen == 4

\* Longest generated string given to needsQuoting.
MaxValueLen == 3
\* The formatter's elapsed-time clock runs from 0 up to this many steps.
MaxElapsed == 2

Reqs == 1..NumRequests

\* ------------------------------------------------------- program constants
\* http.StatusOK, the status NewWriter starts from.
StatusOK == 200
StatusInternalServerError == 500
\* Length of the hex trace id the middleware cuts out of a uuid.
TraceIDLen == 32
\* Length of the hex span id the middleware cuts out of a uuid.
SpanIDLen == 16

\* Status codes the downstream handlers of the model set.
HandlerCodes == {201, 500}

\* ----------------------------------------------------------------- strings
HexDigits ==
  <<"0", "1", "2", "3", "4", "5", "6", "7", "8", "9", "a", "b", "c", "d", "e", "f">>

HexChars == {HexDigits[i] : i \in 1..16}

IsHex(s) == \A i \in 1..Len(s) : s[i] \in HexChars

\* strings.Split(s, sep) for a one-character separator: the fields between the
\* separators, empty fields included; always at least one field.
RECURSIVE SplitFrom(_, _, _, _)
SplitFrom(s, sep, i, cur) ==
  IF i > Len(s) THEN <<cur>>
  ELSE IF s[i] = sep THEN <<cur>> \o SplitFrom(s, sep, i + 1, <<>>)
  ELSE SplitFrom(s, sep, i + 1, Append(cur, s[i]))

Split(s, sep) == SplitFrom(s, sep, 1, <<>>)

\* strings.ReplaceAll(s, old, "") for a one-character old.
RemoveAll(s, old) == SelectSeq(s, LAMBDA c : c # old)

\* The Go slice expression s[:n].
Prefix(s, n) == SubSeq(s, 1, n)

\* ------------------------------------------------------------------- uuid
\* The 16 bytes the random source hands to the n-th uuid.New() of the process.
RandomBytes(n) == [i \in 1..16 |-> (n * 89 + i * 37 + 11) % 256]

\* uuid.New(): random bytes with the version (4) and variant (10) bits set.
NewUUID(n) ==
  LET b == RandomBytes(n)
  IN  [i \in 1..16 |->
         IF i = 7 THEN (b[i] % 16) + 64
         ELSE IF i = 9 THEN (b[i] % 64) + 128
         ELSE b[i]]

\* hex.Encode of one byte: two lower-case hex digits.
HexByte(b) == <<HexDigits[(b \div 16) + 1], HexDigits[(b % 16) + 1]>>

RECURSIVE EncodeHex(_)
EncodeHex(bytes) ==
  IF bytes = <<>> THEN <<>> ELSE HexByte(Head(bytes)) \o EncodeHex(Tail(bytes))

\* UUID.String(): xxxxxxxx-xxxx-xxxx-xxxx-xxxxxxxxxxxx.
UUIDString(u) ==
  EncodeHex(SubSeq(u, 1, 4)) \o <<"-">> \o EncodeHex(SubSeq(u, 5, 6)) \o <<"-">>
    \o EncodeHex(SubSeq(u, 7, 8)) \o <<"-">> \o EncodeHex(SubSeq(u, 9, 10)) \o <<"-">>
    \o EncodeHex(SubSeq(u, 11, 16))

\* uuid.New().String() for every draw the requests of the model can make, by its
\* place in the random stream: a request draws at most three.
UUIDStream == [n \in 0..(3 * NumRequests - 1) |-> UUIDString(NewUUID(n))]

\* ------------------------------------------------------------ inbound data
SampleTraceID ==
  <<"9", "f", "5", "e", "c", "3", "d", "8", "2", "4", "7", "3", "4", "0", "d", "2",
    "a", "4", "4", "6", "0", "a", "d", "5", "8", "b", "c", "d", "3", "c", "7", "f">>

SampleSpanID ==
  <<"2", "1", "b", "1", "c", "9", "1", "7", "c", "5", "0", "f", "3", "a", "6", "a">>

\* "00-<32 hex>-<16 hex>-01"
WellFormedTraceParent ==
  <<"0", "0", "-">> \o SampleTraceID \o <<"-">> \o SampleSpanID \o <<"-", "0", "1">>

\* Four fields, but the ids are not 32 and 16 hex characters: "00-ab-cd-01".
ShortTraceParent == <<"0", "0", "-", "a", "b", "-", "c", "d", "-", "0", "1">>

\* Fewer than four fields: "bad".
BadTraceParent == <<"b", "a", "d">>

\* "abc-123"
SampleRequestID == <<"a", "b", "c", "-", "1", "2", "3">>

\* "k=v"
SampleTraceState == <<"k", "=", "v">>

\* The requests the clients of the model send. An absent header reads as "".
Requests ==
  { [method |-> "GET", path |-> "/test", remoteAddr |-> "10.0.0.1:4000", agent |-> "curl",
     size |-> 0, requestID |-> <<>>, traceparent |-> <<>>, tracestate |-> <<>>],
    [method |-> "POST", path |-> "/items", remoteAddr |-> "10.0.0.2:5000", agent |-> "go-http",
     size |-> 12, requestID |-> SampleRequestID, traceparent |-> WellFormedTraceParent,
     tracestate |-> SampleTraceState],
    [method |-> "GET", path |-> "/items", remoteAddr |-> "10.0.0.2:5000", agent |-> "curl",
     size |-> 0, requestID |-> SampleRequestID, traceparent |-> BadTraceParent,
     tracestate |-> <<>>],
    [method |-> "PUT", path |-> "/test", remoteAddr |-> "10.0.0.3:6000", agent |-> "go-http",
     size |-> 7, requestID |-> <<>>, traceparent |-> ShortTraceParent,
     tracestate |-> SampleTraceState],
    [method |-> "POST", path |-> "/test", remoteAddr |-> "10.0.0.1:4000", agent |-> "curl",
     size |-> 12, requestID |-> SampleRequestID,
     traceparent |-> WellFormedTraceParent \o <<"-", "x">>, tracestate |-> <<>>] }

NoRequest ==
  [method |-> "", path |-> "", remoteAddr |-> "", agent |-> "", size |-> 0,
   requestID |-> <<>>, traceparent |-> <<>>, tracestate |-> <<>>]

\* ---------------------------------------------------------------- logrus
\* A log context (logrus.Entry.Data) is a function from field names to values.
EmptyFields == [k \in {} |-> k]

\* Entry.WithFields: a new field map, the entry's fields overlaid by the given ones.
WithFields(data, fields) == fields @@ data

\* New(name, version, _): the Logger's entry carries service and version.
New(name, version) == ("service" :> name) @@ ("version" :> version)

\* logrus levels, most severe first; a record is written when its level is at
\* most the logger's. New sets the logger to TraceLevel.
Levels == <<"panic", "fatal", "error", "warning", "info", "debug", "trace">>

LevelOf(name) == CHOOSE i \in 1..Len(Levels) : Levels[i] = name

LoggerLevel == "trace"

IsLevelEnabled(level) == LevelOf(LoggerLevel) >= LevelOf(level)

\* Entry.Log: the record reaches the output when its level is enabled.
Emit(records, rec) == IF IsLevelEnabled(rec.level) THEN Append(records, rec) ELSE records

ServiceName == "svc"
ServiceVersion == "v1"

VARIABLES
  Entry,       \* the shared Logger's Entry (its field map)
  pc,          \* where each request's middleware invocation stands
  req,         \* each request as received
  rng,         \* how many uuids the process has generated
  ids,         \* the middleware's locals reqID, traceID, spanID, traceParent
  respHeader,  \* the response headers set so far
  rw,          \* the ResponseLogger wrapped around the request's writer
  reqLogger,   \* the middleware's local reqLogger (an entry's field map)
  ctx,         \* the gin context's keys
  log,         \* the records each request's goroutine has emitted, in order
  calls,       \* the codes passed to the wrapper's WriteHeader so far, in order
  fmtRead,     \* the entry Format has read and not yet written back
  gw,          \* gin's own writer for each request, under the wrapper
  direct,      \* the same handler calls applied to a writer with no wrapper
  rcv,         \* the recovery middleware: its config and the OnPanic calls
  cancelled,   \* whether each request's context has been cancelled
  cors,        \* a request through a chain headed by CORSMiddleware
  fmtArg,      \* the argument of the Format call in progress
  cache,       \* the Redis store behind a redisCache and its caller's last call
  kafka,       \* a consumer group session: its claim, handler calls and marks
  render       \* the formatter's input and what it produced for it

vars == <<Entry, pc, req, rng, ids, respHeader, rw, reqLogger, ctx, log, calls, fmtRead,
          gw, direct, rcv, cancelled, cors, fmtArg, cache, kafka, render>>

NoIDs == [reqID |-> <<>>, traceID |-> <<>>, spanID |-> <<>>, traceParent |-> <<>>]

NoWriter == [statusCode |-> 0, forwarded |-> <<>>]

\* ------------------------------------------------------- gin's own writer
\* gin's responseWriter at the start of a request: 200, nothing sent.
GinWriter == [status |-> StatusOK, written |-> FALSE, body |-> <<>>, sent |-> EmptyFields]

\* responseWriter.WriteHeader: the status can be replaced until it has been sent.
GinWriteHeader(w, code) ==
  IF code > 0 /\ w.status # code /\ ~w.written THEN [w EXCEPT !.status = code] ELSE w

\* responseWriter.WriteHeaderNow: status and the headers set so far are sent, once.
GinWriteHeaderNow(w, header) ==
  IF w.written THEN w ELSE [w EXCEPT !.written = TRUE, !.sent = header]

\* responseWriter.Write: sends the header if it has not been, then the data.
GinWrite(w, header, data) ==
  [GinWriteHeaderNow(w, header) EXCEPT !.body = Append(@, data)]

\* What the client receives from a writer: gin sends the header at the end of the
\* request if nothing sent it before.
ClientStatus(w) == w.status
ClientHeader(w, header) == IF w.written THEN w.sent ELSE header
ClientBody(w) == w.body

\* --------------------------------------------------- recovery middleware
\* Middleware(nil)
NilConfig == [nil |-> TRUE]

IsNilConfig(cfg) == "nil" \in DOMAIN cfg

DefaultMaskErrorMessage == "internal server error"

\* recovery.DefaultConfig; OnPanic is whether a callback is configured.
DefaultConfig ==
  [IncludeStack |-> TRUE, ResponseJSON |-> TRUE,
   MaskErrorMessage |-> DefaultMaskErrorMessage, OnPanic |-> FALSE]

\* The configurations the middleware is built with: nil, the plain-text one with
\* a mask and a callback, and one that leaves the mask empty.
RecoveryConfigs ==
  {NilConfig,
   [IncludeStack |-> FALSE, ResponseJSON |-> FALSE, MaskErrorMessage |-> "oops",
    OnPanic |-> TRUE],
   [IncludeStack |-> TRUE, ResponseJSON |-> FALSE, MaskErrorMessage |-> "",
    OnPanic |-> FALSE]}

\* recovery.Middleware(cfg) before it returns the handler: nil becomes the default
\* config and an empty mask the default mask.
RecoveryMiddleware(cfg) ==
  LET c == IF IsNilConfig(cfg) THEN DefaultConfig ELSE cfg
  IN  IF c.MaskErrorMessage = ""
        THEN [c EXCEPT !.MaskErrorMessage = DefaultMaskErrorMessage]
        ELSE c

\* --------------------------------------------------------- CORS middleware
\* strings.Join(elems, ","): the elements with a comma between neighbours; the
\* empty string for no elements.
RECURSIVE Join(_)
Join(elems) ==
  IF elems = <<>> THEN <<>>
  ELSE IF Len(elems) = 1 THEN <<elems[1]>>
  ELSE <<elems[1], ",">> \o Join(Tail(elems))

defaultHeaders ==
  <<"Content-Type", "Content-Length", "Accept-Encoding", "X-CSRF-Token",
    "Authorization", "Accept", "Origin", "Cache-Control", "X-Requested-With">>

defaultMethods == <<"POST", "OPTIONS", "GET", "PUT", "DELETE">>

\* CORSMiddleware(nil)
NilCORSConfig == [nil |-> TRUE]

IsNilCORSConfig(config) == "nil" \in DOMAIN config

\* The configuration used when none is provided.
DefaultCORSConfig ==
  [AllowOrigins |-> <<"*">>, AllowCredentials |-> "true",
   AllowHeaders |-> defaultHeaders, AllowMethods |-> defaultMethods]

\* The configurations the middleware is built with: nil, one with all four
\* fields, and two that give some fields only (an omitted slice is nil, an
\* omitted string is empty).
CORSConfigs ==
  {NilCORSConfig,
   [AllowOrigins |-> <<"https://example.com", "https://foo.com">>,
    AllowCredentials |-> "false", AllowHeaders |-> <<"X-Test", "X-Other">>,
    AllowMethods |-> <<"GET", "POST">>],
   [AllowOrigins |-> <<"https://example.com">>, AllowCredentials |-> "",
    AllowHeaders |-> <<>>, AllowMethods |-> <<>>],
   [AllowOrigins |-> <<>>, AllowCredentials |-> "false",
    AllowHeaders |-> <<"X-Test">>, AllowMethods |-> <<"GET">>]}

\* The methods of the requests sent through the chain.
CORSMethods == {"GET", "POST", "PUT", "DELETE", "OPTIONS"}

\* The handler chain: CORSMiddleware first, then a middleware and the route's
\* handler.
Chain == <<"cors", "mw", "handler">>

\* gin's abortIndex: Abort moves the chain's index past every handler.
AbortIndex == 63

StatusNoContent == 204

\* ------------------------------------------------------------------ cache
\* A Go value is its type and the text of its scalar parts, in order.
CacheKeys == {"k", "user:1"}

\* The values callers store: strings, an int, a struct{Name string; Age int},
\* and a channel, which encoding/json cannot encode.
CacheValues ==
  {[type |-> "string", vals |-> <<"v">>], [type |-> "string", vals |-> <<"w">>],
   [type |-> "int", vals |-> <<"30">>], [type |-> "user", vals |-> <<"Alice", "30">>],
   [type |-> "chan", vals |-> <<>>]}

\* The variables callers decode into: zero values, and a string that already
\* holds something.
CacheOuts ==
  {[type |-> "string", vals |-> <<"">>], [type |-> "string", vals |-> <<"old">>],
   [type |-> "int", vals |-> <<"0">>], [type |-> "user", vals |-> <<"", "0">>]}

\* The default TTL the cache is built with, in seconds.
DefaultTTL == 60

\* The ttl arguments of SetJSON, in seconds.
CacheTTLs == {-1, 0, 30}

NilError == "nil"

\* json.Marshal: the JSON text as a sequence of tokens, or an error.
Marshal(v) ==
  CASE v.type = "string" -> [err |-> NilError, data |-> <<"\"", v.vals[1], "\"">>]
    [] v.type = "int" -> [err |-> NilError, data |-> <<v.vals[1]>>]
    [] v.type = "user" ->
         [err |-> NilError,
          data |-> <<"{", "\"", "Name", "\"", ":", "\"", v.vals[1], "\"", ",",
                     "\"", "Age", "\"", ":", v.vals[2], "}">>]
    [] OTHER -> [err |-> "json: unsupported type", data |-> <<>>]

\* The kind of JSON value a text holds, by its first token.
JSONKind(data) ==
  IF data = <<>> THEN "invalid"
  ELSE IF data[1] = "\"" THEN "string"
  ELSE IF data[1] = "{" THEN "object"
  ELSE "number"

\* json.Unmarshal into the variable out points to: the decoded value, or an
\* error with out as it was when the JSON value does not fit out's type.
Unmarshal(data, out) ==
  CASE out.type = "string" /\ JSONKind(data) = "string" ->
         [err |-> NilError, out |-> [out EXCEPT !.vals = <<data[2]>>]]
    [] out.type = "int" /\ JSONKind(data) = "number" ->
         [err |-> NilError, out |-> [out EXCEPT !.vals = <<data[1]>>]]
    [] out.type = "user" /\ JSONKind(data) = "object" ->
         [err |-> NilError, out |-> [out EXCEPT !.vals = <<data[7], data[14]>>]]
    [] OTHER -> [err |-> "json: cannot unmarshal", out |-> out]

\* A key Redis does not hold.
NoEntry == [present |-> FALSE, data |-> <<>>, ttl |-> 0]

\* redisCache.GetJSON: what it returns and what out holds afterwards. up is
\* whether Redis answers the command.
GetJSON(store, key, out, up) ==
  IF up /\ ~store[key].present THEN [found |-> FALSE, err |-> NilError, out |-> out]
  ELSE IF ~up THEN [found |-> FALSE, err |-> "redis: connection refused", out |-> out]
  ELSE LET u == Unmarshal(store[key].data, out)
       IN  [found |-> TRUE, err |-> u.err, out |-> u.out]

\* Variant: a key that is already set keeps its value (SET ... NX).
SetJSONKeepsFirst(store, key, v, ttl, up) ==
  LET m == Marshal(v)
      t == IF ttl <= 0 THEN DefaultTTL ELSE ttl
  IN  IF m.err # NilError THEN [err |-> m.err, store |-> store]
      ELSE IF ~up THEN [err |-> "redis: connection refused", store |-> store]
      ELSE IF store[key].present THEN [err |-> NilError, store |-> store]
      ELSE [err |-> NilError,
            store |-> [store EXCEPT ![key] = [present |-> TRUE, data |-> m.data, ttl |-> t]]]

\* redisCache.SetJSON: the error it returns and what Redis holds afterwards.
SetJSON(store, key, v, ttl, up) ==
  LET m == Marshal(v)
      t == IF ttl <= 0 THEN DefaultTTL ELSE ttl
  IN  IF m.err # NilError THEN [err |-> m.err, store |-> store]
      ELSE IF ~up THEN [err |-> "redis: connection refused", store |-> store]
      ELSE [err |-> NilError,
            store |-> [store EXCEPT ![key] = [present |-> TRUE, data |-> m.data, ttl |-> t]]]

\* Variant: the command is acknowledged and the key kept.
DeleteKeepsKey(store, key, up) ==
  IF ~up THEN [err |-> "redis: connection refused", store |-> store]
  ELSE [err |-> NilError, store |-> store]

\* redisCache.Delete
Delete(store, key, up) ==
  IF ~up THEN [err |-> "redis: connection refused", store |-> store]
  ELSE [err |-> NilError, store |-> [store EXCEPT ![key] = NoEntry]]

\* No value is in force for a key.
NoValue == [type |-> "none", vals |-> <<>>]

\* No call has been made.
NoCacheCall ==
  [op |-> "none", key |-> "", v |-> NoValue, out |-> NoValue, up |-> TRUE,
   found |-> FALSE, err |-> NilError, result |-> NoValue]

\* ------------------------------------------------- states before any call
\* No request has reached the CORS chain.
NoCORS ==
  [pc |-> "idle", method |-> "", config |-> NilCORSConfig, header |-> EmptyFields,
   w |-> GinWriter, index |-> 0, ran |-> [i \in DOMAIN Chain |-> 0]]

\* No Format call is in progress.
NoCall == [call |-> FALSE]

\* An empty Redis behind a new cache: set is, for each key, the value of the last
\* SetJSON that succeeded and that no Delete or expiry has undone since.
NoCache ==
  [store |-> [k \in CacheKeys |-> NoEntry], set |-> [k \in CacheKeys |-> NoValue],
   last |-> NoCacheCall]

\* A Consumer that Run has not been called on.
NoKafka ==
  [run |-> "idle", rounds |-> 0, ctxErr |-> NilError, consumeErr |-> NilError,
   result |-> NilError, claim |-> "none", queue |-> <<>>, closed |-> FALSE,
   delivered |-> <<>>, handled |-> <<>>, marked |-> <<>>, claimRet |-> "none"]

\* The formatter has not been called.
NoRender == [fn |-> "none"]

\* The process once recovery.Middleware(cfg) is installed and before any request.
Installed(cfg) ==
  /\ Entry = New(ServiceName, ServiceVersion)
  /\ pc = [r \in Reqs |-> "idle"]
  /\ req = [r \in Reqs |-> NoRequest]
  /\ rng = 0
  /\ ids = [r \in Reqs |-> NoIDs]
  /\ respHeader = [r \in Reqs |-> EmptyFields]
  /\ rw = [r \in Reqs |-> NoWriter]
  /\ reqLogger = [r \in Reqs |-> EmptyFields]
  /\ ctx = [r \in Reqs |-> EmptyFields]
  /\ log = [r \in Reqs |-> <<>>]
  /\ calls = [r \in Reqs |-> <<>>]
  /\ fmtRead = [r \in Reqs |-> EmptyFields]
  /\ gw = [r \in Reqs |-> GinWriter]
  /\ direct = [r \in Reqs |-> GinWriter]
  /\ rcv = [cfg |-> RecoveryMiddleware(cfg), onPanic |-> [r \in Reqs |-> 0]]
  /\ cancelled = [r \in Reqs |-> FALSE]
  /\ cors = NoCORS
  /\ fmtArg = NoCall
  /\ cache = NoCache
  /\ kafka = NoKafka
  /\ render = NoRender

Init == Installed(NilConfig)

\* The same with any of the recovery configurations.
InitOne == \E cfg \in RecoveryConfigs : Installed(cfg)

\* A request reaches the middleware.
Arrive(r) ==
  /\ pc[r] = "idle"
  /\ \E q \in Requests : req' = [req EXCEPT ![r] = q]
  /\ pc' = [pc EXCEPT ![r] = "start"]
  /\ UNCHANGED <<Entry, rng, ids, respHeader, rw, reqLogger, ctx, log, calls, fmtRead, gw, direct, rcv, cancelled, cors, fmtArg, cache, kafka, render>>

\* ------------------------------------------------- trace-aware middleware
\* Variant: the inbound header is ignored and a new uuid always used.
RequestIDAlwaysFresh(header, fresh) == fresh

\* The request id: the inbound X-Request-ID unless it is empty, then a new uuid.
RequestID(header, fresh) == IF header = <<>> THEN fresh ELSE header

\* Variant: the trace id is cut to the span id's length.
FreshTraceIDShort(u) == Prefix(RemoveAll(u, "-"), SpanIDLen)

\* A trace id cut out of a uuid: strings.ReplaceAll(u, "-", "")[:32].
FreshTraceID(u) == Prefix(RemoveAll(u, "-"), TraceIDLen)

\* A span id cut out of a uuid: strings.ReplaceAll(u, "-", "")[:16].
FreshSpanID(u) == Prefix(RemoveAll(u, "-"), SpanIDLen)

\* "00-" + traceID + "-" + spanID + "-01"
FormatTraceParent(traceID, spanID) ==
  <<"0", "0", "-">> \o traceID \o <<"-">> \o spanID \o <<"-", "0", "1">>

\* Whether the middleware generates the trace identity instead of parsing it.
StartsTrace(traceParent) ==
  \/ traceParent = <<>>
  \/ Len(Split(traceParent, "-")) < 4

\* Variant: the ids are taken one field too early (version and trace id).
TraceContextShifted(traceParent, u1, u2) ==
  IF traceParent = <<>>
  THEN [traceID |-> FreshTraceID(u1), spanID |-> FreshSpanID(u2),
        traceParent |-> FormatTraceParent(FreshTraceID(u1), FreshSpanID(u2))]
  ELSE LET parts == Split(traceParent, "-")
       IN  IF Len(parts) >= 4
           THEN [traceID |-> parts[1], spanID |-> parts[2], traceParent |-> traceParent]
           ELSE [traceID |-> FreshTraceID(u1), spanID |-> FreshSpanID(u2),
                 traceParent |-> FormatTraceParent(FreshTraceID(u1), FreshSpanID(u2))]

\* The traceparent handling: u1 and u2 are the uuids drawn when a trace is started.
TraceContext(traceParent, u1, u2) ==
  IF traceParent = <<>>
  THEN [traceID |-> FreshTraceID(u1), spanID |-> FreshSpanID(u2),
        traceParent |-> FormatTraceParent(FreshTraceID(u1), FreshSpanID(u2))]
  ELSE LET parts == Split(traceParent, "-")
       IN  IF Len(parts) >= 4
           THEN [traceID |-> parts[2], spanID |-> parts[3], traceParent |-> traceParent]
           ELSE [traceID |-> FreshTraceID(u1), spanID |-> FreshSpanID(u2),
                 traceParent |-> FormatTraceParent(FreshTraceID(u1), FreshSpanID(u2))]

\* Variant: tracestate is set whether or not the request carried one.
SetResponseHeadersAlways(header, reqID, traceParent, state) ==
  ("tracestate" :> state) @@ ("traceparent" :> traceParent)
    @@ ("X-Request-ID" :> reqID) @@ header

\* The response headers after the middleware's Header().Set calls.
SetResponseHeaders(header, reqID, traceParent, state) ==
  LET h1 == ("X-Request-ID" :> reqID) @@ header
      h2 == ("traceparent" :> traceParent) @@ h1
  IN  IF state # <<>> THEN ("tracestate" :> state) @@ h2 ELSE h2

\* Steps 1 and 2 of the middleware: request id, trace context, response headers.
Identify(r) ==
  /\ pc[r] = "start"
  /\ LET q == req[r]
         reqID == RequestID(q.requestID, UUIDStream[rng])
         n == IF q.requestID = <<>> THEN rng + 1 ELSE rng
         tc == TraceContext(q.traceparent, UUIDStream[n], UUIDStream[n + 1])
     IN  /\ ids' = [ids EXCEPT ![r] = [reqID |-> reqID, traceID |-> tc.traceID,
                                       spanID |-> tc.spanID, traceParent |-> tc.traceParent]]
         /\ rng' = IF StartsTrace(q.traceparent) THEN n + 2 ELSE n
         /\ respHeader' = [respHeader EXCEPT ![r] =
                             SetResponseHeaders(@, reqID, tc.traceParent, q.tracestate)]
  /\ pc' = [pc EXCEPT ![r] = "identified"]
  /\ UNCHANGED <<Entry, req, rw, reqLogger, ctx, log, calls, fmtRead, gw, direct, rcv, cancelled, cors, fmtArg, cache, kafka, render>>

\* Variant: the status is left at the zero value.
NewWriterZero(forwarded) == [statusCode |-> 0, forwarded |-> forwarded]

\* response.NewWriter: the wrapper starts at 200 around the given writer.
NewWriter(forwarded) == [statusCode |-> StatusOK, forwarded |-> forwarded]

\* Variant: only the first code is recorded; every code is still forwarded.
WriteHeaderFirstWins(w, code) ==
  [statusCode |-> IF w.forwarded = <<>> THEN code ELSE w.statusCode,
   forwarded |-> Append(w.forwarded, code)]

\* Variant: the code is recorded and not forwarded.
WriteHeaderNoForward(w, code) == [statusCode |-> code, forwarded |-> w.forwarded]

\* ResponseLogger.WriteHeader: record the code, forward it to the wrapped writer.
WriteHeader(w, code) ==
  [statusCode |-> code, forwarded |-> Append(w.forwarded, code)]

\* ResponseLogger.Status
Status(w) == w.statusCode

\* Variant: the request's entry is not saved to the context.
ContextKeysNoEntry(reqID, traceID, spanID, entry) ==
  ("logger" :> "log") @@ ("request_id" :> reqID) @@ ("trace_id" :> traceID)
    @@ ("span_id" :> spanID)

\* The keys the middleware saves to the gin context.
ContextKeys(reqID, traceID, spanID, entry) ==
  ("logger" :> "log") @@ ("request_id" :> reqID) @@ ("trace_id" :> traceID)
    @@ ("span_id" :> spanID) @@ ("logger_entry" :> entry)

\* Variant: the request's entry is built by extending the shared Logger's entry
\* in place (log.Entry = log.Entry.WithFields(...)), as Format does.
PrepareInPlace(r) ==
  /\ pc[r] = "identified"
  /\ rw' = [rw EXCEPT ![r] = NewWriter(<<>>)]
  /\ LET entry == WithFields(Entry, ("request_id" :> ids[r].reqID)
                                      @@ ("trace_id" :> ids[r].traceID)
                                      @@ ("span_id" :> ids[r].spanID))
     IN  /\ Entry' = entry
         /\ reqLogger' = [reqLogger EXCEPT ![r] = entry]
         /\ ctx' = [ctx EXCEPT ![r] =
                      ContextKeys(ids[r].reqID, ids[r].traceID, ids[r].spanID, entry) @@ @]
  /\ pc' = [pc EXCEPT ![r] = "prepared"]
  /\ UNCHANGED <<req, rng, ids, respHeader, log, calls, fmtRead, gw, direct, rcv, cancelled, cors, fmtArg, cache, kafka, render>>

\* Step 3 of the middleware: wrap the writer, derive the request's entry from the
\* shared Logger's entry, save the keys to the gin context.
Prepare(r) ==
  /\ pc[r] = "identified"
  /\ rw' = [rw EXCEPT ![r] = NewWriter(<<>>)]
  /\ LET entry == WithFields(Entry, ("request_id" :> ids[r].reqID)
                                      @@ ("trace_id" :> ids[r].traceID)
                                      @@ ("span_id" :> ids[r].spanID))
     IN  /\ reqLogger' = [reqLogger EXCEPT ![r] = entry]
         /\ ctx' = [ctx EXCEPT ![r] =
                      ContextKeys(ids[r].reqID, ids[r].traceID, ids[r].spanID, entry) @@ @]
  /\ pc' = [pc EXCEPT ![r] = "prepared"]
  /\ UNCHANGED <<Entry, req, rng, ids, respHeader, log, calls, fmtRead, gw, direct, rcv, cancelled, cors, fmtArg, cache, kafka, render>>

\* Variant: the first record is written at info level.
ReceivedRecordInfo(entry, q) ==
  [level |-> "info", msg |-> "Request Received",
   data |-> WithFields(entry, ("method" :> q.method) @@ ("path" :> q.path))]

\* The record the middleware emits before the downstream handler runs.
ReceivedRecord(entry, q) ==
  [level |-> "debug", msg |-> "Request Received",
   data |-> WithFields(entry, ("method" :> q.method) @@ ("path" :> q.path))]

\* gin's Context.ClientIP with no forwarding headers: the peer address.
ClientIP(q) == q.remoteAddr

\* The record the middleware emits after the downstream handler returned.
CompletedRecord(entry, q, status) ==
  [level |-> "info", msg |-> "request completed",
   data |-> WithFields(entry, ("status" :> status) @@ ("method" :> q.method)
                                @@ ("path" :> q.path) @@ ("clientIP" :> ClientIP(q))
                                @@ ("latency" :> "elapsed"))]

\* Step 4 of the middleware: log the start of the request, then call c.Next().
LogReceived(r) ==
  /\ pc[r] = "prepared"
  /\ log' = [log EXCEPT ![r] = Emit(@, ReceivedRecord(reqLogger[r], req[r]))]
  /\ pc' = [pc EXCEPT ![r] = "handler"]
  /\ UNCHANGED <<Entry, req, rng, ids, respHeader, rw, reqLogger, ctx, calls, fmtRead, gw, direct, rcv, cancelled, cors, fmtArg, cache, kafka, render>>

\* The embedded gin writer after a call on the wrapper: it has received the code
\* the wrapper forwarded in that call, if it forwarded one.
Forwarded(w, before, after) ==
  IF Len(after.forwarded) > Len(before.forwarded)
    THEN GinWriteHeader(w, after.forwarded[Len(after.forwarded)])
    ELSE w

\* The downstream handler sets a status on the writer it was given.
HandlerWriteHeader(r) ==
  /\ pc[r] = "handler"
  /\ Len(rw[r].forwarded) < MaxWriteHeader
  /\ \E code \in HandlerCodes :
       /\ rw' = [rw EXCEPT ![r] = WriteHeader(@, code)]
       /\ calls' = [calls EXCEPT ![r] = Append(@, code)]
       /\ direct' = [direct EXCEPT ![r] = GinWriteHeader(@, code)]
  /\ gw' = [gw EXCEPT ![r] = Forwarded(@, rw[r], rw'[r])]
  /\ UNCHANGED <<Entry, pc, req, rng, ids, respHeader, reqLogger, ctx, log, fmtRead, rcv, cancelled, cors, fmtArg, cache, kafka, render>>

\* What a handler writes to the body.
HandlerChunk == [kind |-> "raw", text |-> "ok"]

\* The downstream handler writes to the body: Write is not overridden by the
\* wrapper, so the call lands on the embedded gin writer.
HandlerWrite(r) ==
  /\ pc[r] = "handler"
  /\ Len(gw[r].body) < MaxWrite
  /\ gw' = [gw EXCEPT ![r] = GinWrite(@, respHeader[r], HandlerChunk)]
  /\ direct' = [direct EXCEPT ![r] = GinWrite(@, respHeader[r], HandlerChunk)]
  /\ UNCHANGED <<Entry, pc, req, rng, ids, respHeader, rw, reqLogger, ctx, log, calls, fmtRead, rcv, cancelled, cors, fmtArg, cache, kafka, render>>

\* A record written through the Logger stored under "logger": Logger.Info and
\* Logger.Error log through l.Entry, the shared Logger's entry.
LoggerRecord(entry, level, msg) == [level |-> level, msg |-> msg, data |-> entry]

\* The downstream handler takes the Logger from the context and calls Info.
HandlerLog(r) ==
  /\ pc[r] = "handler"
  /\ "logger" \in DOMAIN ctx[r]
  /\ Cardinality({i \in 1..Len(log[r]) : log[r][i].msg = "handling"}) < MaxHandlerLogs
  /\ log' = [log EXCEPT ![r] = Emit(@, LoggerRecord(Entry, "info", "handling"))]
  /\ UNCHANGED <<Entry, pc, req, rng, ids, respHeader, rw, reqLogger, ctx, calls, fmtRead, gw, direct, rcv, cancelled, cors, fmtArg, cache, kafka, render>>

\* The request's context is cancelled (the client went away or a deadline
\* passed) while the handler runs.
Cancel(r) ==
  /\ pc[r] = "handler"
  /\ ~cancelled[r]
  /\ cancelled' = [cancelled EXCEPT ![r] = TRUE]
  /\ UNCHANGED <<Entry, pc, req, rng, ids, respHeader, rw, reqLogger, ctx, log, calls, fmtRead, gw, direct, rcv, cors, fmtArg, cache, kafka, render>>

\* The downstream handler returns: c.Next() returns to the middleware.
HandlerReturn(r) ==
  /\ pc[r] = "handler"
  /\ pc' = [pc EXCEPT ![r] = "returned"]
  /\ UNCHANGED <<Entry, req, rng, ids, respHeader, rw, reqLogger, ctx, log, calls, fmtRead, gw, direct, rcv, cancelled, cors, fmtArg, cache, kafka, render>>

\* The downstream handler panics: c.Next() unwinds through the middleware, which
\* defers nothing, so the rest of the middleware does not run.
HandlerPanic(r) ==
  /\ pc[r] = "handler"
  /\ pc' = [pc EXCEPT ![r] = "panicked"]
  /\ UNCHANGED <<Entry, req, rng, ids, respHeader, rw, reqLogger, ctx, log, calls, fmtRead, gw, direct, rcv, cancelled, cors, fmtArg, cache, kafka, render>>

\* Step 5 of the middleware: log the completion with the captured status.
LogCompleted(r) ==
  /\ pc[r] = "returned"
  /\ log' = [log EXCEPT ![r] =
              Emit(@, CompletedRecord(reqLogger[r], req[r], Status(rw[r])))]
  /\ pc' = [pc EXCEPT ![r] = "done"]
  /\ UNCHANGED <<Entry, req, rng, ids, respHeader, rw, reqLogger, ctx, calls, fmtRead, gw, direct, rcv, cancelled, cors, fmtArg, cache, kafka, render>>

\* ------------------------------------------- recovery around the middleware
\* The value the handler panics with.
PanicValue == "boom"

\* The text recovery logs: the panic value, and the stack if configured.
PanicMessage(cfg) ==
  IF cfg.IncludeStack THEN "panic recovered: boom, stack" ELSE "panic recovered: boom"

\* Recovery's log line: through the "logger" context value when there is one,
\* else through the standard library's logger.
PanicRecord(keys, entry, cfg) ==
  IF "logger" \in DOMAIN keys
    THEN LoggerRecord(entry, "error", PanicMessage(cfg))
    ELSE [level |-> "error", msg |-> PanicMessage(cfg), data |-> EmptyFields]

\* Recovery's deferred function, first half: log the panic, call OnPanic.
RecoverLog(r) ==
  /\ pc[r] = "panicked"
  /\ log' = [log EXCEPT ![r] = Emit(@, PanicRecord(ctx[r], Entry, rcv.cfg))]
  /\ rcv' = IF rcv.cfg.OnPanic THEN [rcv EXCEPT !.onPanic[r] = @ + 1] ELSE rcv
  /\ pc' = [pc EXCEPT ![r] = "recovering"]
  /\ UNCHANGED <<Entry, req, rng, ids, respHeader, rw, reqLogger, ctx, calls, fmtRead, gw, direct, cancelled, cors, fmtArg, cache, kafka, render>>

\* Variant: the reply carries the panic value.
PanicPayloadLeaks(cfg, value) == [kind |-> "string", text |-> value]

\* The body recovery replies with: {"error": mask} or the mask as a JSON string.
PanicPayload(cfg, value) ==
  IF cfg.ResponseJSON
    THEN [kind |-> "object", text |-> cfg.MaskErrorMessage]
    ELSE [kind |-> "string", text |-> cfg.MaskErrorMessage]

\* The headers after c.Header("X-Recovered-From", "panic") and the JSON render.
RecoveredHeader(header) ==
  ("X-Recovered-From" :> "panic") @@ ("Content-Type" :> "application/json") @@ header

\* Recovery's deferred function, second half: mark the response and reply with
\* c.AbortWithStatusJSON(500, ...) on c.Writer, which is the wrapper by now.
RecoverRespond(r) ==
  /\ pc[r] = "recovering"
  /\ respHeader' = [respHeader EXCEPT ![r] = RecoveredHeader(@)]
  /\ rw' = [rw EXCEPT ![r] = WriteHeader(@, StatusInternalServerError)]
  /\ calls' = [calls EXCEPT ![r] = Append(@, StatusInternalServerError)]
  /\ gw' = [gw EXCEPT ![r] = GinWrite(Forwarded(@, rw[r], rw'[r]), respHeader'[r],
                                       PanicPayload(rcv.cfg, PanicValue))]
  /\ direct' = [direct EXCEPT ![r] =
                 GinWrite(GinWriteHeader(@, StatusInternalServerError), respHeader'[r],
                          PanicPayload(rcv.cfg, PanicValue))]
  /\ pc' = [pc EXCEPT ![r] = "recovered"]
  /\ UNCHANGED <<Entry, req, rng, ids, reqLogger, ctx, log, fmtRead, rcv, cancelled, cors, fmtArg, cache, kafka, render>>

\* Requests handled concurrently on the one shared Logger; what their handlers
\* do to the response is left to SpecOne.
Next ==
  \E r \in Reqs :
    \/ Arrive(r)
    \/ Identify(r)
    \/ Prepare(r)
    \/ LogReceived(r)
    \/ HandlerReturn(r)
    \/ HandlerPanic(r)
    \/ LogCompleted(r)

Spec == Init /\ [][Next]_vars

\* One request through recovery and the middleware, in the README's order, with
\* a handler that sets statuses, writes, logs, and may be cancelled or panic.
NextOne ==
  \/ Arrive(1)
  \/ Identify(1)
  \/ Prepare(1)
  \/ LogReceived(1)
  \/ HandlerWriteHeader(1)
  \/ HandlerWrite(1)
  \/ HandlerLog(1)
  \/ Cancel(1)
  \/ HandlerReturn(1)
  \/ HandlerPanic(1)
  \/ LogCompleted(1)
  \/ RecoverLog(1)
  \/ RecoverRespond(1)

SpecOne == InitOne /\ [][NextOne]_vars

\* --------------------------------- a status set before the middleware runs
\* The statuses set on gin's writer before the middleware wraps it: the
\* router's 404 for an unmatched route, or an earlier middleware's c.Status.
EarlierCodes == {404}

\* A status is set on gin's writer before the middleware is entered.
EarlierStatus(r) ==
  /\ pc[r] = "start"
  /\ gw[r] = GinWriter
  /\ \E code \in EarlierCodes :
       /\ gw' = [gw EXCEPT ![r] = GinWriteHeader(@, code)]
       /\ direct' = [direct EXCEPT ![r] = GinWriteHeader(@, code)]
  /\ UNCHANGED <<Entry, pc, req, rng, ids, respHeader, rw, reqLogger, ctx, log, calls, fmtRead, rcv, cancelled, cors, fmtArg, cache, kafka, render>>

NextRouted == NextOne \/ EarlierStatus(1)

\* One request, on whose writer a status may have been set before the
\* middleware runs.
SpecRouted == InitOne /\ [][NextRouted]_vars

\* ------------------------------------------------ ResponseLogger on its own
\* Status codes passed to the wrapper when it is exercised on its own.
WriterCodes == {200, 201, 404, 500}

\* Most WriteHeader calls made on the wrapper when it is exercised on its own.
MaxCalls == 4

\* A caller wraps a writer that no status was set on.
Wrap ==
  /\ pc[1] = "idle"
  /\ rw' = [rw EXCEPT ![1] = NewWriter(<<>>)]
  /\ pc' = [pc EXCEPT ![1] = "wrapped"]
  /\ UNCHANGED <<Entry, req, rng, ids, respHeader, reqLogger, ctx, log, calls, fmtRead, gw, direct, rcv, cancelled, cors, fmtArg, cache, kafka, render>>

\* A caller sets a status through the wrapper.
CallWriteHeader ==
  /\ pc[1] = "wrapped"
  /\ Len(calls[1]) < MaxCalls
  /\ \E code \in WriterCodes :
       /\ rw' = [rw EXCEPT ![1] = WriteHeader(@, code)]
       /\ calls' = [calls EXCEPT ![1] = Append(@, code)]
  /\ UNCHANGED <<Entry, pc, req, rng, ids, respHeader, reqLogger, ctx, log, fmtRead, gw, direct, rcv, cancelled, cors, fmtArg, cache, kafka, render>>

NextWriter == Wrap \/ CallWriteHeader

SpecWriter == Init /\ [][NextWriter]_vars

\* ------------------------------------ the middleware that formats in place
\* Logger.Format of logger.go: the entry extended with the request's fields.
LegacyFormat(entry, q) ==
  WithFields(entry, ("method" :> q.method) @@ ("origin" :> q.remoteAddr)
                      @@ ("agent" :> q.agent) @@ ("size" :> q.size)
                      @@ ("resource" :> q.path))

\* c.Set("logger", l), then Format evaluates l.Entry.WithFields(...): it reads the
\* shared Logger's Entry.
LegacyFormatRead(r) ==
  /\ pc[r] = "start"
  /\ ctx' = [ctx EXCEPT ![r] = ("logger" :> "log") @@ @]
  /\ fmtRead' = [fmtRead EXCEPT ![r] = Entry]
  /\ pc' = [pc EXCEPT ![r] = "formatting"]
  /\ UNCHANGED <<Entry, req, rng, ids, respHeader, rw, reqLogger, log, calls, gw, direct, rcv, cancelled, cors, fmtArg, cache, kafka, render>>

\* Format stores the extended entry back into the shared Logger.
LegacyFormatWrite(r) ==
  /\ pc[r] = "formatting"
  /\ Entry' = LegacyFormat(fmtRead[r], req[r])
  /\ pc' = [pc EXCEPT ![r] = "formatted"]
  /\ UNCHANGED <<req, rng, ids, respHeader, rw, reqLogger, ctx, log, calls, fmtRead, gw, direct, rcv, cancelled, cors, fmtArg, cache, kafka, render>>

\* l.Entry.Debug("Request Received"): the record carries whatever the shared
\* Logger's Entry holds now; then c.Next().
LegacyDebug(r) ==
  /\ pc[r] = "formatted"
  /\ log' = [log EXCEPT ![r] =
              Emit(@, [level |-> "debug", msg |-> "Request Received", data |-> Entry])]
  /\ pc' = [pc EXCEPT ![r] = "handler"]
  /\ UNCHANGED <<Entry, req, rng, ids, respHeader, rw, reqLogger, ctx, calls, fmtRead, gw, direct, rcv, cancelled, cors, fmtArg, cache, kafka, render>>

NextLegacy ==
  \E r \in Reqs :
    \/ Arrive(r)
    \/ LegacyFormatRead(r)
    \/ LegacyFormatWrite(r)
    \/ LegacyDebug(r)
    \/ HandlerReturn(r)

SpecLegacy == Init /\ [][NextLegacy]_vars

\* ------------------------------------------------------- Logger.Format
\* Format(nil)
NilRequest == [nil |-> TRUE]

IsNilRequest(q) == "nil" \in DOMAIN q

\* Variant: the entry is rebuilt from the request's fields alone.
FormatFieldsOnly(entry, q) ==
  IF IsNilRequest(q)
    THEN entry
    ELSE ("method" :> q.method) @@ ("origin" :> q.remoteAddr) @@ ("agent" :> q.agent)
           @@ ("size" :> q.size) @@ ("resource" :> q.path)

\* Logger.Format: what l.Entry holds after the call. A nil request returns at
\* once; otherwise l.Entry is replaced by itself extended with five fields.
Format(entry, q) ==
  IF IsNilRequest(q)
    THEN entry
    ELSE WithFields(entry, ("method" :> q.method) @@ ("origin" :> q.remoteAddr)
                             @@ ("agent" :> q.agent) @@ ("size" :> q.size)
                             @@ ("resource" :> q.path))

\* A holder of the Logger calls Format with nil or with a request.
CallFormat ==
  /\ ~fmtArg.call
  /\ \E q \in Requests \cup {NilRequest} : fmtArg' = [call |-> TRUE, request |-> q]
  /\ UNCHANGED <<Entry, pc, req, rng, ids, respHeader, rw, reqLogger, ctx, log, calls, fmtRead, gw, direct, rcv, cancelled, cors, cache, kafka, render>>

\* The call runs and returns.
ReturnFormat ==
  /\ fmtArg.call
  /\ Entry' = Format(Entry, fmtArg.request)
  /\ fmtArg' = NoCall
  /\ UNCHANGED <<pc, req, rng, ids, respHeader, rw, reqLogger, ctx, log, calls, fmtRead, gw, direct, rcv, cancelled, cors, cache, kafka, render>>

\* Format calls on the Logger between the steps of a request going through the
\* middleware built on the same Logger.
NextFormat ==
  \/ CallFormat
  \/ ReturnFormat
  \/ Arrive(1)
  \/ Identify(1)
  \/ Prepare(1)
  \/ LogReceived(1)
  \/ HandlerReturn(1)
  \/ LogCompleted(1)

SpecFormat == Init /\ [][NextFormat]_vars

\* --------------------------------------------- a request through the CORS chain
\* A request enters the chain: gin runs the first handler, CORSMiddleware's.
CORSArrive ==
  /\ cors.pc = "idle"
  /\ \E m \in CORSMethods, config \in CORSConfigs :
       cors' = [cors EXCEPT !.pc = "cors", !.method = m, !.config = config, !.index = 1]
  /\ UNCHANGED <<Entry, pc, req, rng, ids, respHeader, rw, reqLogger, ctx, log, calls, fmtRead, gw, direct, rcv, cancelled, fmtArg, cache, kafka, render>>

\* The configuration the handler works with: the default one for a nil config,
\* else the given one as it is.
EffectiveConfig(config) == IF IsNilCORSConfig(config) THEN DefaultCORSConfig ELSE config

\* The four headers.Set calls.
CORSHeaders(header, config) ==
  ("Access-Control-Allow-Origin" :> Join(config.AllowOrigins))
    @@ ("Access-Control-Allow-Credentials" :> config.AllowCredentials)
    @@ ("Access-Control-Allow-Headers" :> Join(config.AllowHeaders))
    @@ ("Access-Control-Allow-Methods" :> Join(config.AllowMethods))
    @@ header

\* CORSMiddleware's handler up to the preflight test.
CORSSetHeaders ==
  /\ cors.pc = "cors"
  /\ cors' = [cors EXCEPT !.pc = "headers",
                           !.header = CORSHeaders(@, EffectiveConfig(cors.config))]
  /\ UNCHANGED <<Entry, pc, req, rng, ids, respHeader, rw, reqLogger, ctx, log, calls, fmtRead, gw, direct, rcv, cancelled, fmtArg, cache, kafka, render>>

\* Variant: the status is set and sent, and the chain is not aborted.
StatusWithoutAbort(c, code) ==
  [c EXCEPT !.w = GinWriteHeaderNow(GinWriteHeader(@, code), c.header)]

\* gin's Context.AbortWithStatus: set the status, send the header, abort.
AbortWithStatus(c, code) ==
  [c EXCEPT !.w = GinWriteHeaderNow(GinWriteHeader(@, code), c.header),
            !.index = AbortIndex]

\* The preflight branch: c.AbortWithStatus(204); return.
CORSPreflight ==
  /\ cors.pc = "headers"
  /\ cors.method = "OPTIONS"
  /\ cors' = [AbortWithStatus(cors, StatusNoContent) EXCEPT !.pc = "returned"]
  /\ UNCHANGED <<Entry, pc, req, rng, ids, respHeader, rw, reqLogger, ctx, log, calls, fmtRead, gw, direct, rcv, cancelled, fmtArg, cache, kafka, render>>

\* The other branch: c.Next() starts running the handlers after this one.
CORSNext ==
  /\ cors.pc = "headers"
  /\ cors.method # "OPTIONS"
  /\ cors' = [cors EXCEPT !.pc = "next", !.index = @ + 1]
  /\ UNCHANGED <<Entry, pc, req, rng, ids, respHeader, rw, reqLogger, ctx, log, calls, fmtRead, gw, direct, rcv, cancelled, fmtArg, cache, kafka, render>>

\* gin's Next loop, inside c.Next() or in the engine after the first handler
\* returned: run the handler at the index, move on. The route's handler answers
\* c.String(200, "ok").
RunDownstream ==
  /\ cors.pc \in {"next", "engine"}
  /\ cors.index <= Len(Chain)
  /\ cors' = [cors EXCEPT !.ran[cors.index] = @ + 1,
                           !.index = @ + 1,
                           !.w = IF Chain[cors.index] = "handler"
                                   THEN GinWrite(GinWriteHeader(@, StatusOK), cors.header,
                                                 HandlerChunk)
                                   ELSE @]
  /\ UNCHANGED <<Entry, pc, req, rng, ids, respHeader, rw, reqLogger, ctx, log, calls, fmtRead, gw, direct, rcv, cancelled, fmtArg, cache, kafka, render>>

\* c.Next() is out of handlers and returns; CORSMiddleware's handler returns.
NextReturns ==
  /\ cors.pc = "next"
  /\ cors.index > Len(Chain)
  /\ cors' = [cors EXCEPT !.pc = "returned"]
  /\ UNCHANGED <<Entry, pc, req, rng, ids, respHeader, rw, reqLogger, ctx, log, calls, fmtRead, gw, direct, rcv, cancelled, fmtArg, cache, kafka, render>>

\* Back in the engine's loop after the first handler: the index moves on.
CORSReturn ==
  /\ cors.pc = "returned"
  /\ cors' = [cors EXCEPT !.pc = "engine", !.index = @ + 1]
  /\ UNCHANGED <<Entry, pc, req, rng, ids, respHeader, rw, reqLogger, ctx, log, calls, fmtRead, gw, direct, rcv, cancelled, fmtArg, cache, kafka, render>>

\* The engine's loop is out of handlers: the header is sent if it was not.
EngineDone ==
  /\ cors.pc = "engine"
  /\ cors.index > Len(Chain)
  /\ cors' = [cors EXCEPT !.pc = "done", !.w = GinWriteHeaderNow(@, cors.header)]
  /\ UNCHANGED <<Entry, pc, req, rng, ids, respHeader, rw, reqLogger, ctx, log, calls, fmtRead, gw, direct, rcv, cancelled, fmtArg, cache, kafka, render>>

NextCORS ==
  \/ CORSArrive
  \/ CORSSetHeaders
  \/ CORSPreflight
  \/ CORSNext
  \/ RunDownstream
  \/ NextReturns
  \/ CORSReturn
  \/ EngineDone

SpecCORS == Init /\ [][NextCORS]_vars

\* ----------------------------------------------------- calls on the cache
\* A caller stores a value.
CallSetJSON ==
  \E key \in CacheKeys, v \in CacheValues, ttl \in CacheTTLs, up \in BOOLEAN :
    LET r == SetJSON(cache.store, key, v, ttl, up)
    IN  /\ cache' = [store |-> r.store,
                     set |-> IF r.err = NilError THEN [cache.set EXCEPT ![key] = v]
                             ELSE cache.set,
                     last |-> [NoCacheCall EXCEPT !.op = "set", !.key = key, !.v = v,
                                                  !.up = up, !.err = r.err]]
        /\ UNCHANGED <<Entry, pc, req, rng, ids, respHeader, rw, reqLogger, ctx, log, calls, fmtRead, gw, direct, rcv, cancelled, cors, fmtArg, kafka, render>>

\* A caller reads a key into a variable of theirs.
CallGetJSON ==
  \E key \in CacheKeys, out \in CacheOuts, up \in BOOLEAN :
    LET r == GetJSON(cache.store, key, out, up)
    IN  /\ cache' = [cache EXCEPT !.last =
                       [NoCacheCall EXCEPT !.op = "get", !.key = key, !.out = out,
                                           !.up = up, !.found = r.found, !.err = r.err,
                                           !.result = r.out]]
        /\ UNCHANGED <<Entry, pc, req, rng, ids, respHeader, rw, reqLogger, ctx, log, calls, fmtRead, gw, direct, rcv, cancelled, cors, fmtArg, kafka, render>>

\* A caller deletes a key.
CallDelete ==
  \E key \in CacheKeys, up \in BOOLEAN :
    LET r == Delete(cache.store, key, up)
    IN  /\ cache' = [store |-> r.store,
                     set |-> IF r.err = NilError THEN [cache.set EXCEPT ![key] = NoValue]
                             ELSE cache.set,
                     last |-> [NoCacheCall EXCEPT !.op = "delete", !.key = key,
                                                  !.up = up, !.err = r.err]]
        /\ UNCHANGED <<Entry, pc, req, rng, ids, respHeader, rw, reqLogger, ctx, log, calls, fmtRead, gw, direct, rcv, cancelled, cors, fmtArg, kafka, render>>

\* A key's time to live runs out: Redis drops it.
Expire ==
  \E key \in CacheKeys :
    /\ cache.store[key].present
    /\ cache.store[key].ttl > 0
    /\ cache' = [store |-> [cache.store EXCEPT ![key] = NoEntry],
                 set |-> [cache.set EXCEPT ![key] = NoValue],
                 last |-> [NoCacheCall EXCEPT !.op = "expire", !.key = key]]
    /\ UNCHANGED <<Entry, pc, req, rng, ids, respHeader, rw, reqLogger, ctx, log, calls, fmtRead, gw, direct, rcv, cancelled, cors, fmtArg, kafka, render>>

NextCache == CallSetJSON \/ CallGetJSON \/ CallDelete \/ Expire

SpecCache == Init /\ [][NextCache]_vars

\* ------------------------------------------------------- kafka consumer
\* The payloads of the messages on the topic.
MessageValues == {"a", "b"}

\* What MessageHandler.HandleMessage returns.
HandlerErrors == {NilError, "handler failed"}

\* What the consumer group's Consume returns.
ConsumeErrors == {NilError, "kafka: consume failed"}

ContextCanceled == "context canceled"

\* Variant: every message is marked, whatever the handler returned.
MarkAlways(marked, msg, err) == Append(marked, msg)

\* ConsumeClaim's loop body after the handler call: MarkMessage if it returned nil.
MarkMessage(marked, msg, err) == IF err = NilError THEN Append(marked, msg) ELSE marked

\* fmt.Errorf("consume error: %w", err)
WrapConsumeError(err) == <<"consume error: ", err>>

\* Variant: a cancelled context ends Run with nil.
RunAfterConsumeNilOnCancel(consumeErr, ctxErr) ==
  IF consumeErr # NilError THEN [return |-> TRUE, err |-> WrapConsumeError(consumeErr)]
  ELSE IF ctxErr # NilError THEN [return |-> TRUE, err |-> <<NilError>>]
  ELSE [return |-> FALSE, err |-> <<NilError>>]

\* Run's loop body after Consume returned: whether Run returns, and with what.
RunAfterConsume(consumeErr, ctxErr) ==
  IF consumeErr # NilError THEN [return |-> TRUE, err |-> WrapConsumeError(consumeErr)]
  ELSE IF ctxErr # NilError THEN [return |-> TRUE, err |-> <<ctxErr>>]
  ELSE [return |-> FALSE, err |-> <<NilError>>]

\* Run calls c.group.Consume: at first, and again after a Consume that returned
\* nil with the context still live. A new session starts.
InvokeConsume ==
  /\ \/ kafka.run = "idle"
     \/ /\ kafka.run = "checking"
        /\ ~RunAfterConsume(kafka.consumeErr, kafka.ctxErr).return
  /\ kafka.rounds < MaxConsume
  /\ kafka' = [NoKafka EXCEPT !.run = "consuming", !.rounds = kafka.rounds + 1,
                               !.ctxErr = kafka.ctxErr]
  /\ UNCHANGED <<Entry, pc, req, rng, ids, respHeader, rw, reqLogger, ctx, log, calls, fmtRead, gw, direct, rcv, cancelled, cors, fmtArg, cache, render>>

\* The session calls ConsumeClaim for the claim it was assigned.
StartClaim ==
  /\ kafka.run = "consuming"
  /\ kafka.claim = "none"
  /\ kafka' = [kafka EXCEPT !.claim = "running"]
  /\ UNCHANGED <<Entry, pc, req, rng, ids, respHeader, rw, reqLogger, ctx, log, calls, fmtRead, gw, direct, rcv, cancelled, cors, fmtArg, cache, render>>

\* The broker delivers the next message on the claim's channel.
Deliver ==
  /\ kafka.claim = "running"
  /\ ~kafka.closed
  /\ Len(kafka.delivered) < MaxMessages
  /\ \E v \in MessageValues :
       LET msg == [offset |-> Len(kafka.delivered) + 1, value |-> v]
       IN  kafka' = [kafka EXCEPT !.queue = Append(@, msg), !.delivered = Append(@, msg)]
  /\ UNCHANGED <<Entry, pc, req, rng, ids, respHeader, rw, reqLogger, ctx, log, calls, fmtRead, gw, direct, rcv, cancelled, cors, fmtArg, cache, render>>

\* The claim's channel is closed (rebalance, or the session ends).
CloseClaim ==
  /\ kafka.claim = "running"
  /\ ~kafka.closed
  /\ kafka' = [kafka EXCEPT !.closed = TRUE]
  /\ UNCHANGED <<Entry, pc, req, rng, ids, respHeader, rw, reqLogger, ctx, log, calls, fmtRead, gw, direct, rcv, cancelled, cors, fmtArg, cache, render>>

\* One turn of ConsumeClaim's loop: receive a message, call the handler, mark.
HandleNext ==
  /\ kafka.claim = "running"
  /\ kafka.queue # <<>>
  /\ \E err \in HandlerErrors :
       LET msg == Head(kafka.queue)
       IN  kafka' = [kafka EXCEPT !.queue = Tail(@),
                                  !.handled = Append(@, [msg |-> msg, err |-> err]),
                                  !.marked = MarkMessage(@, msg, err)]
  /\ UNCHANGED <<Entry, pc, req, rng, ids, respHeader, rw, reqLogger, ctx, log, calls, fmtRead, gw, direct, rcv, cancelled, cors, fmtArg, cache, render>>

\* The range over a closed, drained channel ends: ConsumeClaim returns nil.
ClaimReturn ==
  /\ kafka.claim = "running"
  /\ kafka.queue = <<>>
  /\ kafka.closed
  /\ kafka' = [kafka EXCEPT !.claim = "returned", !.claimRet = NilError]
  /\ UNCHANGED <<Entry, pc, req, rng, ids, respHeader, rw, reqLogger, ctx, log, calls, fmtRead, gw, direct, rcv, cancelled, cors, fmtArg, cache, render>>

\* Consume returns to Run: after the session's ConsumeClaim returned, or before
\* any claim was consumed.
ConsumeReturns ==
  /\ kafka.run = "consuming"
  /\ kafka.claim \in {"none", "returned"}
  /\ \E err \in ConsumeErrors :
       kafka' = [kafka EXCEPT !.run = "checking", !.consumeErr = err]
  /\ UNCHANGED <<Entry, pc, req, rng, ids, respHeader, rw, reqLogger, ctx, log, calls, fmtRead, gw, direct, rcv, cancelled, cors, fmtArg, cache, render>>

\* Run returns.
RunReturn ==
  /\ kafka.run = "checking"
  /\ RunAfterConsume(kafka.consumeErr, kafka.ctxErr).return
  /\ kafka' = [kafka EXCEPT !.run = "returned",
                             !.result = RunAfterConsume(kafka.consumeErr, kafka.ctxErr).err]
  /\ UNCHANGED <<Entry, pc, req, rng, ids, respHeader, rw, reqLogger, ctx, log, calls, fmtRead, gw, direct, rcv, cancelled, cors, fmtArg, cache, render>>

\* The context passed to Run is cancelled.
CancelContext ==
  /\ kafka.run \in {"consuming", "checking"}
  /\ kafka.ctxErr = NilError
  /\ kafka' = [kafka EXCEPT !.ctxErr = ContextCanceled]
  /\ UNCHANGED <<Entry, pc, req, rng, ids, respHeader, rw, reqLogger, ctx, log, calls, fmtRead, gw, direct, rcv, cancelled, cors, fmtArg, cache, render>>

NextKafka ==
  \/ InvokeConsume
  \/ StartClaim
  \/ Deliver
  \/ CloseClaim
  \/ HandleNext
  \/ ClaimReturn
  \/ ConsumeReturns
  \/ RunReturn
  \/ CancelContext

SpecKafka == Init /\ [][NextKafka]_vars

\* ---------------------------------------------------- formatter functions
\* Every sequence over an alphabet up to a length.
BoundedSeqs(alphabet, n) == UNION {[1..k -> alphabet] : k \in 0..n}

\* The elements of a sequence.
Range(seq) == {seq[i] : i \in DOMAIN seq}

\* The messages extractPrefix is given: those of its test, and every string over
\* brackets, space and two letters up to a length.
PrefixTestMessages ==
  {<<"[", "p", "r", "e", "f", "i", "x", "]", " ", "a", "c", "t", "u", "a", "l", " ", "m", "e", "s", "s", "a", "g", "e">>,
   <<"n", "o", " ", "p", "r", "e", "f", "i", "x", " ", "m", "e", "s", "s", "a", "g", "e">>,
   <<"[", "p", "]", "m", "s", "g">>}

PrefixMessages == PrefixTestMessages \cup BoundedSeqs({"[", "]", " ", "p", "m"}, MaxMsgLen)

\* Index of the first "]" of a message, 0 if it has none.
FirstClose(msg) ==
  IF \E j \in DOMAIN msg : msg[j] = "]"
    THEN CHOOSE j \in DOMAIN msg : msg[j] = "]" /\ \A i \in 1..(j - 1) : msg[i] # "]"
    ELSE 0

\* Index of the last "]" of a message, 0 if it has none.
LastClose(msg) ==
  IF \E j \in DOMAIN msg : msg[j] = "]"
    THEN CHOOSE j \in DOMAIN msg : msg[j] = "]" /\ \A i \in (j + 1)..Len(msg) : msg[i] # "]"
    ELSE 0

\* A single leading space is consumed.
DropSpace(rest) == IF rest # <<>> /\ rest[1] = " " THEN Tail(rest) ELSE rest

\* Variant: the tag runs to the last "]" of the message.
ExtractPrefixGreedy(msg) ==
  LET j == LastClose(msg)
  IN  IF msg # <<>> /\ msg[1] = "[" /\ j > 2
        THEN <<SubSeq(msg, 2, j - 1), DropSpace(SubSeq(msg, j + 1, Len(msg)))>>
        ELSE <<<<>>, msg>>

\* extractPrefix: a leading "[", the first "]" and one following space are
\* consumed; an empty or unterminated bracket leaves the message whole.
ExtractPrefix(msg) ==
  LET j == FirstClose(msg)
  IN  IF msg # <<>> /\ msg[1] = "[" /\ j > 2
        THEN <<SubSeq(msg, 2, j - 1), DropSpace(SubSeq(msg, j + 1, Len(msg)))>>
        ELSE <<<<>>, msg>>

\* extractPrefix is called on a message.
CallExtractPrefix ==
  /\ render.fn = "none"
  /\ \E msg \in PrefixMessages :
       render' = [fn |-> "extractPrefix", in |-> msg, out |-> ExtractPrefix(msg)]
  /\ UNCHANGED <<Entry, pc, req, rng, ids, respHeader, rw, reqLogger, ctx, log, calls, fmtRead, gw, direct, rcv, cancelled, cors, fmtArg, cache, kafka>>

SpecPrefix == Init /\ [][CallExtractPrefix]_vars

\* needsQuoting ----------------------------------------------------------
LowerCase ==
  {"a", "b", "c", "d", "e", "f", "g", "h", "i", "j", "k", "l", "m", "n", "o", "p", "q",
   "r", "s", "t", "u", "v", "w", "x", "y", "z"}

UpperCase ==
  {"A", "B", "C", "D", "E", "F", "G", "H", "I", "J", "K", "L", "M", "N", "O", "P", "Q",
   "R", "S", "T", "U", "V", "W", "X", "Y", "Z"}

Digits == {"0", "1", "2", "3", "4", "5", "6", "7", "8", "9"}

\* The strings of TestNeedsQuoting.
QuotingTestValues ==
  {<<"s", "i", "m", "p", "l", "e">>,
   <<"w", "i", "t", "h", " ", "s", "p", "a", "c", "e">>,
   <<"s", "p", "e", "c", "i", "a", "l", "!">>,
   <<"u", "n", "d", "e", "r", "s", "c", "o", "r", "e", "_", "o", "k">>,
   <<"d", "a", "s", "h", "-", "o", "k">>,
   <<"d", "o", "t", ".", "o", "k">>,
   <<>>}

\* The strings needsQuoting is given: those of its test, and every string over a
\* few characters of each kind up to a length.
QuotingValues ==
  QuotingTestValues \cup BoundedSeqs({"a", "Z", "0", "_", ".", "-", " ", "!"}, MaxValueLen)

\* Variant: the underscore passes unquoted as well.
SafeCharWithUnderscore(ch) ==
  ch \in LowerCase \cup UpperCase \cup Digits \cup {"-", ".", "_"}

\* The characters a value may hold and stay unquoted: letters, digits, dash and
\* dot. TestNeedsQuoting expects "underscore_ok" to need quoting.
SafeChar(ch) == ch \in LowerCase \cup UpperCase \cup Digits \cup {"-", "."}

\* needsQuoting: true at the first character that is not safe.
RECURSIVE NeedsQuoting(_)
NeedsQuoting(text) ==
  IF text = <<>> THEN FALSE
  ELSE IF ~SafeChar(Head(text)) THEN TRUE
  ELSE NeedsQuoting(Tail(text))

\* needsQuoting is called on a string.
CallNeedsQuoting ==
  /\ render.fn = "none"
  /\ \E text \in QuotingValues :
       render' = [fn |-> "needsQuoting", in |-> text, out |-> NeedsQuoting(text)]
  /\ UNCHANGED <<Entry, pc, req, rng, ids, respHeader, rw, reqLogger, ctx, log, calls, fmtRead, gw, direct, rcv, cancelled, cors, fmtArg, cache, kafka>>

SpecQuoting == Init /\ [][CallNeedsQuoting]_vars

\* prefixFieldClashes ----------------------------------------------------
\* The record keys the formatter writes itself, in the order they are resolved.
ReservedKeys == <<"time", "msg", "level">>

\* The name a clashing field is moved to.
ClashName(key) ==
  CASE key = "time" -> "fields.time"
    [] key = "msg" -> "fields.msg"
    [] key = "level" -> "fields.level"

\* Field names and values a caller may give: the reserved names, a name that is
\* already prefixed, and a name that clashes with nothing.
FieldKeys == {"time", "msg", "level", "fields.time", "k1"}

FieldValues == {"now", "hi"}

\* The field maps of a record: any subset of the names, each with a value. The
\* map of TestPrefixFieldClashes, {time: "now", msg: "hi", level: "warn"}, has
\* the shape of one of them.
FieldMaps == UNION {[keys -> FieldValues] : keys \in SUBSET FieldKeys}

\* Variant: the value is copied under the prefixed name and the bare name stays.
ResolveClashKeepsBare(data, key) ==
  IF key \notin DOMAIN data THEN data
  ELSE [k \in DOMAIN data \cup {ClashName(key)} |->
          IF k = ClashName(key) THEN data[key] ELSE data[k]]

\* One reserved name: if the map has it, its value moves to the prefixed name.
ResolveClash(data, key) ==
  IF key \notin DOMAIN data THEN data
  ELSE [k \in (DOMAIN data \ {key}) \cup {ClashName(key)} |->
          IF k = ClashName(key) THEN data[key] ELSE data[k]]

\* prefixFieldClashes: time, msg and level are resolved one after the other.
PrefixFieldClashes(data) ==
  ResolveClash(ResolveClash(ResolveClash(data, ReservedKeys[1]), ReservedKeys[2]),
               ReservedKeys[3])

\* prefixFieldClashes is called on a field map.
CallPrefixFieldClashes ==
  /\ render.fn = "none"
  /\ \E data \in FieldMaps :
       render' = [fn |-> "prefixFieldClashes", in |-> data, out |-> PrefixFieldClashes(data)]
  /\ UNCHANGED <<Entry, pc, req, rng, ids, respHeader, rw, reqLogger, ctx, log, calls, fmtRead, gw, direct, rcv, cancelled, cors, fmtArg, cache, kafka>>

SpecClashes == Init /\ [][CallPrefixFieldClashes]_vars

\* Format ----------------------------------------------------------------
\* The field names of the records that are rendered, in lexicographic order.
KeyOrder == <<"k1", "k2", "service", "version">>

\* The field maps of the records that are rendered: none, one field, two fields
\* of which one needs quotes, and service and version with one more.
EntryFields ==
  { [k \in {} |-> <<>>],
    [k \in {"k1"} |-> <<"v", "1">>],
    [k \in {"k1", "k2"} |-> IF k = "k1" THEN <<"a", " ", "b">> ELSE <<"v", "2">>],
    [k \in {"k1", "service", "version"} |->
       IF k = "service" THEN <<"s", "v", "c">> ELSE <<"v", "1">>] }

\* The records: a level, the record's own wall-clock time, a message with or
\* without a prefix, and fields.
Entries ==
  [Level : {"info", "warning"},
   Time : {<<"2", "0", "2", "5">>},
   Message : {<<"[", "p", "]", " ", "m">>, <<"m", " ", "x">>},
   Data : EntryFields]

\* The render options.
Formatters ==
  [ForceColors : BOOLEAN, FullTimestamp : BOOLEAN, DisableTimestamp : BOOLEAN,
   DisableSorting : BOOLEAN, DisableUppercase : BOOLEAN]

\* All orders of a set of keys: what ranging over a Go map can give.
Orders(keys) ==
  {o \in [1..Cardinality(keys) -> keys] : \A i, j \in DOMAIN o : i # j => o[i] # o[j]}

\* sort.Strings on the keys.
RECURSIVE SortedFrom(_, _)
SortedFrom(keys, i) ==
  IF i > Len(KeyOrder) THEN <<>>
  ELSE (IF KeyOrder[i] \in keys THEN <<KeyOrder[i]>> ELSE <<>>) \o SortedFrom(keys, i + 1)

\* The orders in which Format may write the fields: sorted, or with
\* DisableSorting the order the map happens to be ranged in.
KeyOrders(data, f) ==
  IF f.DisableSorting THEN Orders(DOMAIN data) ELSE {SortedFrom(DOMAIN data, 1)}

\* miniTS: the time elapsed since the formatter was initialised, as digits.
MiniTS(elapsed) == <<"0", "0", "0", CASE elapsed = 0 -> "0" [] elapsed = 1 -> "1"
                                     [] elapsed = 2 -> "2" [] OTHER -> "3">>

\* A value in quotes.
Quoted(value) == <<"\"">> \o value \o <<"\"">>

\* appendValue for a string: quoted when needsQuoting says so.
AppendValue(value) == IF NeedsQuoting(value) THEN Quoted(value) ELSE value

\* The level as printed in colored mode.
LevelText(level, f) ==
  IF f.DisableUppercase THEN <<level>>
  ELSE <<CASE level = "info" -> "INFO" [] level = "warning" -> "WARN">>

\* The escape sequence that starts a level's color, and the one that ends it.
LevelColor(level) == CASE level = "info" -> "\\x1b[32m" [] level = "warning" -> "\\x1b[33m"

ResetColor == "\\x1b[0m"

\* The fields written as pairs, in the given order, each after a space.
RECURSIVE Pairs(_, _, _, _)
Pairs(data, order, sep, i) ==
  IF i > Len(order) THEN <<>>
  ELSE <<" ", order[i], sep>> \o AppendValue(data[order[i]]) \o Pairs(data, order, sep, i + 1)

\* Variant: the time token is the elapsed time in plain mode and with
\* FullTimestamp too.
TimestampTokenAlwaysElapsed(entry, f, elapsed) ==
  IF f.DisableTimestamp THEN <<>> ELSE MiniTS(elapsed)

\* The time written in a line: none with DisableTimestamp, the record's
\* wall-clock time in plain mode and with FullTimestamp, else miniTS().
TimestampToken(entry, f, elapsed) ==
  IF f.DisableTimestamp THEN <<>>
  ELSE IF ~f.ForceColors \/ f.FullTimestamp THEN entry.Time
  ELSE MiniTS(elapsed)

\* Plain mode: time, level, msg (always quoted), prefix if any, the fields as
\* key:value, and a newline.
FormatPlain(entry, f, order, elapsed) ==
  LET pm == ExtractPrefix(entry.Message)
      ts == TimestampToken(entry, f, elapsed)
  IN  (IF ts = <<>> THEN <<>> ELSE <<"time", ":">> \o Quoted(ts) \o <<" ">>)
      \o <<"level", ":", entry.Level, " ", "msg", ":">> \o Quoted(pm[2])
      \o (IF pm[1] = <<>> THEN <<>> ELSE <<" ", "prefix", ":">> \o AppendValue(pm[1]))
      \o Pairs(entry.Data, order, ":", 1)
      \o <<"\n">>

\* Colored mode: the colored level, the time token, service@version when both
\* fields are there, the prefix, the message, the remaining fields as key=value,
\* and a newline.
PrintColored(entry, f, order, elapsed) ==
  LET pm == ExtractPrefix(entry.Message)
      ts == TimestampToken(entry, f, elapsed)
      sv == {"service", "version"} \subseteq DOMAIN entry.Data
      rest == SelectSeq(order, LAMBDA k : ~(sv /\ k \in {"service", "version"}))
  IN  <<LevelColor(entry.Level)>> \o LevelText(entry.Level, f) \o <<ResetColor>>
      \o (IF ts = <<>> THEN <<>> ELSE <<"[">> \o ts \o <<"]">>)
      \o (IF sv THEN <<" ">> \o entry.Data["service"] \o <<"@">> \o entry.Data["version"]
           ELSE <<>>)
      \o (IF pm[1] = <<>> THEN <<>> ELSE <<" ", "[">> \o pm[1] \o <<"]">>)
      \o <<" ">> \o pm[2]
      \o Pairs(entry.Data, rest, "=", 1)
      \o <<"\n">>

\* Formatter.Format: the bytes of one line. The destination is a buffer, so
\* the line is colored only when ForceColors is set.
FormatterFormat(entry, f, order, elapsed) ==
  IF f.ForceColors THEN PrintColored(entry, f, order, elapsed)
  ELSE FormatPlain(entry, f, order, elapsed)

\* A formatter is set up and a record is built.
NewFormatter ==
  /\ render.fn = "none"
  /\ \E entry \in Entries, f \in Formatters :
       render' = [fn |-> "Format", entry |-> entry, formatter |-> f, elapsed |-> 0,
                  out |-> <<>>]
  /\ UNCHANGED <<Entry, pc, req, rng, ids, respHeader, rw, reqLogger, ctx, log, calls, fmtRead, gw, direct, rcv, cancelled, cors, fmtArg, cache, kafka>>

\* Format is called on the record; render.out collects the lines returned.
FormatEntry ==
  /\ render.fn = "Format"
  /\ Len(render.out) < 2
  /\ \E order \in KeyOrders(render.entry.Data, render.formatter) :
       render' = [render EXCEPT !.out = Append(@,
                    FormatterFormat(render.entry, render.formatter, order, render.elapsed))]
  /\ UNCHANGED <<Entry, pc, req, rng, ids, respHeader, rw, reqLogger, ctx, log, calls, fmtRead, gw, direct, rcv, cancelled, cors, fmtArg, cache, kafka>>

\* Time passes.
Tick ==
  /\ render.fn = "Format"
  /\ render.elapsed < MaxElapsed
  /\ render' = [render EXCEPT !.elapsed = @ + 1]
  /\ UNCHANGED <<Entry, pc, req, rng, ids, respHeader, rw, reqLogger, ctx, log, calls, fmtRead, gw, direct, rcv, cancelled, cors, fmtArg, cache, kafka>>

NextRender == NewFormatter \/ FormatEntry \/ Tick

SpecRender == Init /\ [][NextRender]_vars

\* ================================================================== claims
\* The request has passed steps 1 and 2 of the middleware.
Identified(r) == pc[r] \notin {"idle", "start"}

\* The request has passed step 3 of the middleware.
Prepared(r) == pc[r] \notin {"idle", "start", "identified"}

TraceIDStream == [n \in DOMAIN UUIDStream |-> FreshTraceID(UUIDStream[n])]

SpanIDStream == [n \in DOMAIN UUIDStream |-> FreshSpanID(UUIDStream[n])]

\* The uuids the process has generated so far, as strings.
Generated == {UUIDStream[n] : n \in 0..(rng - 1)}

\* The trace ids and span ids cut out of the uuids generated so far.
GeneratedTraceIDs == {TraceIDStream[n] : n \in 0..(rng - 1)}

GeneratedSpanIDs == {SpanIDStream[n] : n \in 0..(rng - 1)}

IDFields == {"request_id", "trace_id", "span_id"}

\* C1: under every interleaving of the requests handled through the trace-aware
\* middleware on one shared Logger, the shared Logger's entry keeps exactly the
\* fields service and version, and each request's derived entry (the one saved as
\* "logger_entry" and used for its records) carries exactly that request's own
\* request_id, trace_id and span_id on top of them.
C1_BaseEntryUnchangedAndIsolated ==
  /\ Entry = New(ServiceName, ServiceVersion)
  /\ DOMAIN Entry = {"service", "version"}
  /\ \A r \in Reqs :
       Prepared(r) =>
         /\ DOMAIN reqLogger[r] = {"service", "version"} \cup IDFields
         /\ reqLogger[r]["service"] = ServiceName
         /\ reqLogger[r]["version"] = ServiceVersion
         /\ reqLogger[r]["request_id"] = ids[r].reqID
         /\ reqLogger[r]["trace_id"] = ids[r].traceID
         /\ reqLogger[r]["span_id"] = ids[r].spanID
         /\ ctx[r]["logger_entry"] = reqLogger[r]
         /\ \A i \in 1..Len(log[r]) :
              /\ log[r][i].data["request_id"] = ids[r].reqID
              /\ log[r][i].data["trace_id"] = ids[r].traceID
              /\ log[r][i].data["span_id"] = ids[r].spanID

\* C1 witness: two requests are inside their handlers at once, with different
\* request ids and different trace ids.
C1_Witness ==
  \E r1, r2 \in Reqs :
    /\ r1 # r2
    /\ pc[r1] = "handler"
    /\ pc[r2] = "handler"
    /\ ids[r1].reqID # ids[r2].reqID
    /\ ids[r1].traceID # ids[r2].traceID

\* C2: in the middleware that calls Format on the shared Logger, the "Request
\* Received" record a request emits carries that request's own method, origin,
\* agent, size and resource.
C2_ReceivedCarriesOwnFields ==
  \A r \in Reqs :
    \A i \in 1..Len(log[r]) :
      log[r][i].msg = "Request Received" =>
        /\ log[r][i].data["method"] = req[r].method
        /\ log[r][i].data["origin"] = req[r].remoteAddr
        /\ log[r][i].data["agent"] = req[r].agent
        /\ log[r][i].data["size"] = req[r].size
        /\ log[r][i].data["resource"] = req[r].path

\* C3: an inbound non-empty X-Request-ID is the value of the response header, of
\* the context key request_id and of the request_id field of both records;
\* otherwise one generated, non-empty id is used for all of them.
C3_RequestIDPropagated ==
  \A r \in Reqs :
    Identified(r) =>
      LET id == respHeader[r]["X-Request-ID"]
      IN  /\ id # <<>>
          /\ req[r].requestID # <<>> => id = req[r].requestID
          /\ req[r].requestID = <<>> => id \in Generated
          /\ Prepared(r) => ctx[r]["request_id"] = id
          /\ \A i \in 1..Len(log[r]) : log[r][i].data["request_id"] = id
          /\ pc[r] = "done" => Len(log[r]) = 2

\* C3 witness: one completed request that carried an X-Request-ID and one that
\* carried none.
C3_Witness ==
  \E r1, r2 \in Reqs :
    /\ pc[r1] = "done"
    /\ pc[r2] = "done"
    /\ req[r1].requestID = SampleRequestID
    /\ req[r2].requestID = <<>>

\* C4: when the inbound traceparent splits on "-" into at least 4 fields, trace_id
\* is field 2 and span_id is field 3, unchanged, in the context and in the
\* records, and the response traceparent is the inbound value.
C4_TraceContinued ==
  \A r \in Reqs :
    (Identified(r) /\ Len(Split(req[r].traceparent, "-")) >= 4) =>
      LET parts == Split(req[r].traceparent, "-")
      IN  /\ ids[r].traceID = parts[2]
          /\ ids[r].spanID = parts[3]
          /\ req[r].traceparent = WellFormedTraceParent =>
               (ids[r].traceID = SampleTraceID /\ ids[r].spanID = SampleSpanID)
          /\ respHeader[r]["traceparent"] = req[r].traceparent
          /\ Prepared(r) =>
               (ctx[r]["trace_id"] = parts[2] /\ ctx[r]["span_id"] = parts[3])
          /\ \A i \in 1..Len(log[r]) :
               /\ log[r][i].data["trace_id"] = parts[2]
               /\ log[r][i].data["span_id"] = parts[3]

\* C4 witness: a completed request that carried the well-formed traceparent.
C4_Witness ==
  \E r \in Reqs :
    /\ pc[r] = "done"
    /\ req[r].traceparent = WellFormedTraceParent
    /\ Len(log[r]) = 2

\* The inbound traceparent is absent, empty or has fewer than 4 fields.
NoUsableTraceParent(r) ==
  \/ req[r].traceparent = <<>>
  \/ Len(Split(req[r].traceparent, "-")) < 4

\* C5: when the inbound traceparent is absent, empty or has fewer than 4 fields,
\* the middleware generates a trace id of 32 hex characters and a span id of 16,
\* sets the response traceparent to "00-<trace_id>-<span_id>-01" built from them,
\* sets no status and goes on to the downstream handler.
C5_TraceStarted ==
  LET traceIDs == GeneratedTraceIDs
      spanIDs == GeneratedSpanIDs
  IN
  \A r \in Reqs :
    (pc[r] # "idle" /\ NoUsableTraceParent(r)) =>
      /\ pc[r] = "start" => ENABLED Identify(r)
      /\ pc[r] = "identified" => ENABLED Prepare(r)
      /\ pc[r] = "prepared" => ENABLED LogReceived(r)
      /\ Identified(r) =>
           /\ ids[r].traceID \in traceIDs
           /\ ids[r].spanID \in spanIDs
           /\ Len(ids[r].traceID) = 32
           /\ IsHex(ids[r].traceID)
           /\ Len(ids[r].spanID) = 16
           /\ IsHex(ids[r].spanID)
           /\ respHeader[r]["traceparent"] =
                <<"0", "0", "-">> \o ids[r].traceID \o <<"-">> \o ids[r].spanID
                  \o <<"-", "0", "1">>
           /\ Len(Split(respHeader[r]["traceparent"], "-")) = 4
           /\ pc[r] \in {"identified", "prepared"} => rw[r].forwarded = <<>>

\* C5 witness: a request with the traceparent "bad" and one with none have both
\* reached their handlers.
C5_Witness ==
  \E r1, r2 \in Reqs :
    /\ req[r1].traceparent = BadTraceParent
    /\ req[r2].traceparent = <<>>
    /\ pc[r1] \in {"handler", "returned", "done"}
    /\ pc[r2] \in {"handler", "returned", "done"}

\* C6: whatever the inbound traceparent holds, the trace identity the middleware
\* establishes is a trace id of 32 hex characters and a span id of 16.
C6_TraceIdentityWellSized ==
  \A r \in Reqs :
    Identified(r) =>
      /\ Len(ids[r].traceID) = 32
      /\ IsHex(ids[r].traceID)
      /\ Len(ids[r].spanID) = 16
      /\ IsHex(ids[r].spanID)

\* C7: the response carries tracestate exactly when the request carried a
\* non-empty one, and then the same value; X-Request-ID and traceparent are set
\* on every response.
C7_TraceStateOnlyIfSupplied ==
  \A r \in Reqs :
    Identified(r) =>
      /\ ("tracestate" \in DOMAIN respHeader[r]) <=> (req[r].tracestate # <<>>)
      /\ "tracestate" \in DOMAIN respHeader[r] =>
           respHeader[r]["tracestate"] = req[r].tracestate
      /\ {"X-Request-ID", "traceparent"} \subseteq DOMAIN respHeader[r]

\* C7 witness: one finished request that carried a tracestate and one that did
\* not.
C7_Witness ==
  \E r1, r2 \in Reqs :
    /\ pc[r1] \in {"done", "panicked"}
    /\ pc[r2] \in {"done", "panicked"}
    /\ req[r1].tracestate = SampleTraceState
    /\ req[r2].tracestate = <<>>

\* C8 as claimed: after WriteHeader calls c1, c2, ..., Status() returns c1, the
\* first status set.
C8_StatusIsFirst ==
  (pc[1] = "wrapped" /\ calls[1] # <<>>) => Status(rw[1]) = calls[1][1]

\* C8 as amended: after WriteHeader calls c1, ..., cn, Status() returns cn, the
\* most recent status set.
C8_StatusIsLast ==
  (pc[1] = "wrapped" /\ calls[1] # <<>>) => Status(rw[1]) = calls[1][Len(calls[1])]

\* C8 witness: several WriteHeader calls, the last with another code than the
\* first.
C8_Witness ==
  /\ pc[1] = "wrapped"
  /\ Len(calls[1]) >= 2
  /\ calls[1][1] # calls[1][Len(calls[1])]

\* C9: every WriteHeader(code) reaches the wrapped writer with the same code, in
\* order; after exactly one WriteHeader(code) Status() returns code; with no
\* WriteHeader call Status() returns 200.
C9_TransparentProxy ==
  pc[1] = "wrapped" =>
    /\ rw[1].forwarded = calls[1]
    /\ Len(calls[1]) = 1 => Status(rw[1]) = calls[1][1]
    /\ calls[1] = <<>> => Status(rw[1]) = 200

\* C9 witness: exactly one call, WriteHeader(201), was made.
C9_Witness ==
  /\ pc[1] = "wrapped"
  /\ calls[1] = <<201>>
  /\ Status(rw[1]) = 201

\* C10: nothing is logged before step 4; from the moment the downstream handler
\* is invoked until it returns the request has emitted exactly "Request Received"
\* at debug level; once the middleware is done it has emitted exactly that and
\* then "request completed" at info level, both with the same request_id and the
\* same trace_id.
C10_ReceivedThenCompleted ==
  \A r \in Reqs :
    /\ pc[r] \in {"idle", "start", "identified", "prepared"} => log[r] = <<>>
    /\ pc[r] \in {"handler", "returned", "panicked", "done"} =>
         /\ Len(log[r]) >= 1
         /\ log[r][1].msg = "Request Received"
         /\ log[r][1].level = "debug"
    /\ pc[r] \in {"handler", "returned", "panicked"} => Len(log[r]) = 1
    /\ pc[r] = "done" =>
         /\ Len(log[r]) = 2
         /\ log[r][2].msg = "request completed"
         /\ log[r][2].level = "info"
         /\ log[r][2].data["request_id"] = log[r][1].data["request_id"]
         /\ log[r][2].data["trace_id"] = log[r][1].data["trace_id"]

\* C10 witness: a request whose handler returned and whose middleware has
\* finished, next to one whose handler is still running.
C10_Witness ==
  \E r1, r2 \in Reqs :
    /\ pc[r1] = "done"
    /\ Len(log[r1]) = 2
    /\ pc[r2] = "handler"

\* The request emitted the record with this message.
Emitted(r, msg) == \E i \in 1..Len(log[r]) : log[r][i].msg = msg

\* C11: every request that emitted "Request Received" has emitted "request
\* completed" once its handling is over, also when the handler panicked and the
\* recovery middleware installed ahead of the logger middleware recovered it.
C11_CompletedAlsoAfterPanic ==
  \A r \in Reqs :
    pc[r] \in {"done", "recovered"} /\ Emitted(r, "Request Received") =>
      Emitted(r, "request completed")

\* C12: when the request is cancelled while the downstream handler is still
\* running, the middleware is able to emit "request completed" with the status
\* observable at that moment: it does not wait for the handler.
C12_CompletionNotBlockedOnHandler ==
  \A r \in Reqs :
    cancelled[r] /\ pc[r] = "handler" => ENABLED LogCompleted(r)

\* C13: every record written while a request is handled carries trace_id and
\* span_id, the records written through the Logger stored under "logger"
\* (recovery's "panic recovered", a handler's Info) included.
C13_EveryRecordHasTraceFields ==
  \A r \in Reqs : \A i \in 1..Len(log[r]) :
    {"trace_id", "span_id"} \subseteq DOMAIN log[r][i].data

\* The context keys the middleware saves besides "logger".
TraceKeys == {"request_id", "trace_id", "span_id", "logger_entry"}

\* C14: while the downstream handler runs, the context holds request_id,
\* trace_id, span_id and logger_entry, the entry carrying those same ids, and the
\* response headers X-Request-ID and traceparent are set; before the middleware
\* has saved them, none of these keys is in the context.
C14_ContextReadyAtHandler ==
  \A r \in Reqs :
    /\ pc[r] = "handler" =>
         /\ TraceKeys \subseteq DOMAIN ctx[r]
         /\ ctx[r]["request_id"] = ids[r].reqID
         /\ ctx[r]["trace_id"] = ids[r].traceID
         /\ ctx[r]["span_id"] = ids[r].spanID
         /\ IDFields \subseteq DOMAIN ctx[r]["logger_entry"]
         /\ ctx[r]["logger_entry"]["request_id"] = ids[r].reqID
         /\ ctx[r]["logger_entry"]["trace_id"] = ids[r].traceID
         /\ ctx[r]["logger_entry"]["span_id"] = ids[r].spanID
         /\ {"X-Request-ID", "traceparent"} \subseteq DOMAIN respHeader[r]
         /\ respHeader[r]["X-Request-ID"] = ids[r].reqID
         /\ respHeader[r]["traceparent"] = ids[r].traceParent
    /\ pc[r] \in {"idle", "start", "identified"} => TraceKeys \cap DOMAIN ctx[r] = {}

\* C14 witness: one request's handler is running with the keys in its context
\* while another request has not reached the middleware's c.Set calls.
C14_Witness ==
  \E r1, r2 \in Reqs :
    /\ pc[r1] = "handler"
    /\ TraceKeys \subseteq DOMAIN ctx[r1]
    /\ pc[r2] = "identified"
    /\ DOMAIN ctx[r2] = {}

\* C15: a Format call does not modify the receiver: when the call returns, the
\* Logger's entry holds the field set it held before the call.
C15_FormatLeavesReceiver ==
  [][fmtArg.call /\ ~fmtArg'.call => Entry' = Entry]_vars

\* The Logger's entry holds the fields New gave it.
DefaultFields(entry) ==
  /\ {"service", "version"} \subseteq DOMAIN entry
  /\ entry["service"] = ServiceName
  /\ entry["version"] = ServiceVersion

\* C16: after New and any sequence of Format calls, with nil or with a request,
\* and of middleware steps, the Logger's entry still holds service = name and
\* version = version, and Format(nil) would leave the entry as it is.
C16_DefaultFieldsStay ==
  /\ DefaultFields(Entry)
  /\ Format(Entry, NilRequest) = Entry

\* C16 witness: Format has extended the entry with a request's fields, a
\* Format(nil) call is in progress, and a request has been through the middleware.
C16_Witness ==
  /\ "resource" \in DOMAIN Entry
  /\ fmtArg.call
  /\ IsNilRequest(fmtArg.request)
  /\ pc[1] = "done"

\* C17: the status and the body the client receives through the logger middleware
\* are those the same handler calls produce on a writer the middleware has not
\* wrapped, whatever the inbound headers, a malformed traceparent included.
C17_StatusAndBodyUntouched ==
  \A r \in Reqs :
    /\ ClientStatus(gw[r]) = ClientStatus(direct[r])
    /\ ClientBody(gw[r]) = ClientBody(direct[r])

\* C17 witness: a request with a malformed traceparent went through the
\* middleware; its handler set a status other than 200 and wrote a body.
C17_Witness ==
  /\ pc[1] = "done"
  /\ req[1].traceparent \in {BadTraceParent, ShortTraceParent}
  /\ ClientStatus(gw[1]) = 201
  /\ ClientBody(gw[1]) = <<HandlerChunk>>

\* The reply the client receives is recovery's: 500, marked as recovered, the
\* body holding the configured mask and nothing else.
MaskedReply(r) ==
  /\ ClientStatus(gw[r]) = StatusInternalServerError
  /\ "X-Recovered-From" \in DOMAIN ClientHeader(gw[r], respHeader[r])
  /\ ClientHeader(gw[r], respHeader[r])["X-Recovered-From"] = "panic"
  /\ Len(ClientBody(gw[r])) = 1
  /\ ClientBody(gw[r])[1].text = rcv.cfg.MaskErrorMessage
  /\ rcv.cfg.MaskErrorMessage # ""

\* OnPanic has been called once if it is configured, and never otherwise.
OnPanicCalledOnce(r) == rcv.onPanic[r] = IF rcv.cfg.OnPanic THEN 1 ELSE 0

\* The handler wrote to the body before it panicked.
HandlerHadWritten(r) ==
  \E i \in 1..Len(ClientBody(gw[r])) : ClientBody(gw[r])[i] = HandlerChunk

Downstream == {i \in DOMAIN Chain : Chain[i] # "cors"}

AccessControlHeaders ==
  {"Access-Control-Allow-Origin", "Access-Control-Allow-Credentials",
   "Access-Control-Allow-Headers", "Access-Control-Allow-Methods"}

\* C19: for an OPTIONS request no handler after CORSMiddleware ever runs, and
\* once the request is over the client has status 204, an empty body and the
\* Access-Control-* headers; for any other method every handler after
\* CORSMiddleware runs at most once, and exactly once by the time the request is
\* over.
C19_PreflightAbortsElseNextOnce ==
  /\ cors.method = "OPTIONS" =>
       /\ \A i \in Downstream : cors.ran[i] = 0
       /\ cors.pc \in {"returned", "engine", "done"} =>
            /\ ClientStatus(cors.w) = StatusNoContent
            /\ ClientBody(cors.w) = <<>>
            /\ AccessControlHeaders \subseteq DOMAIN ClientHeader(cors.w, cors.header)
  /\ cors.method # "OPTIONS" =>
       /\ \A i \in Downstream : cors.ran[i] <= 1
       /\ cors.pc \in {"returned", "engine", "done"} =>
            \A i \in Downstream : cors.ran[i] = 1

\* C19 witness: an OPTIONS request has been answered and is over.
C19_Witness ==
  /\ cors.pc = "done"
  /\ cors.method = "OPTIONS"
  /\ cors.w.written

\* The value a field has when it is given, else its default.
OrDefault(given, default, omitted) == IF given = omitted THEN default ELSE given

\* C20: for a non-nil config, every omitted field is replaced by its default:
\* the headers carry "*" for no origins, "true" for no credentials value,
\* defaultHeaders for no headers and defaultMethods for no methods.
C20_OmittedFieldsDefaulted ==
  cors.pc \notin {"idle", "cors"} /\ ~IsNilCORSConfig(cors.config) =>
    /\ cors.header["Access-Control-Allow-Origin"]
         = Join(OrDefault(cors.config.AllowOrigins, <<"*">>, <<>>))
    /\ cors.header["Access-Control-Allow-Credentials"]
         = OrDefault(cors.config.AllowCredentials, "true", "")
    /\ cors.header["Access-Control-Allow-Headers"]
         = Join(OrDefault(cors.config.AllowHeaders, defaultHeaders, <<>>))
    /\ cors.header["Access-Control-Allow-Methods"]
         = Join(OrDefault(cors.config.AllowMethods, defaultMethods, <<>>))

\* The last call was a GetJSON that Redis answered.
AnsweredGet == cache.last.op = "get" /\ cache.last.up

C22_AbsentKey ==
  AnsweredGet /\ cache.set[cache.last.key] = NoValue =>
    /\ ~cache.last.found
    /\ cache.last.err = NilError
    /\ cache.last.result = cache.last.out

\* C22 witness: a key is read into a variable that holds "old" while Redis does
\* not hold it, and the variable still holds "old".
C22_Witness ==
  /\ AnsweredGet
  /\ cache.set[cache.last.key] = NoValue
  /\ cache.last.out = [type |-> "string", vals |-> <<"old">>]
  /\ cache.last.result = cache.last.out

\* C30: whenever GetJSON returns a non-nil error, it returns found = false.
C30_ErrorMeansNotFound ==
  cache.last.op = "get" /\ cache.last.err # NilError => ~cache.last.found

\* The messages of the handler calls made so far, in call order.
HandledMessages == [i \in 1..Len(kafka.handled) |-> kafka.handled[i].msg]

\* The handler calls that returned nil.
ReturnedNil(h) == h.err = NilError

\* The messages of the handler calls that returned nil, in call order.
HandledOK ==
  LET ok == SelectSeq(kafka.handled, ReturnedNil)
  IN  [i \in 1..Len(ok) |-> ok[i].msg]

\* C23: the messages passed to the handler, followed by those still waiting on
\* the channel, are the messages delivered, in delivery order (each is handled
\* once, in order, whatever earlier handler calls returned); the messages marked
\* are exactly those whose handler call returned nil; ConsumeClaim returns only
\* when the channel is closed and drained, every delivered message handled, and
\* it returns nil.
C23_EachMessageHandledOnce ==
  /\ HandledMessages \o kafka.queue = kafka.delivered
  /\ kafka.marked = HandledOK
  /\ kafka.claim = "returned" =>
       /\ kafka.closed
       /\ HandledMessages = kafka.delivered
       /\ kafka.claimRet = NilError

\* C23 witness: ConsumeClaim has returned after two messages; the handler failed
\* on the first, which is not marked, and succeeded on the second, which is.
C23_Witness ==
  /\ kafka.claim = "returned"
  /\ Len(kafka.handled) = 2
  /\ kafka.handled[1].err # NilError
  /\ kafka.handled[2].err = NilError
  /\ kafka.marked = <<kafka.handled[2].msg>>

\* C24: after a Consume that returned nil with the context not cancelled, Run
\* does not return and invokes Consume again; when Run has returned, its error is
\* not nil: the wrapped consume error if the last Consume failed, else the
\* context's error, the context having been cancelled.
C24_RunReturnsOnlyWithError ==
  /\ kafka.run = "checking" /\ kafka.consumeErr = NilError /\ kafka.ctxErr = NilError
       /\ kafka.rounds < MaxConsume =>
         /\ ENABLED InvokeConsume
         /\ ~ENABLED RunReturn
  /\ kafka.run = "returned" =>
       /\ kafka.result # <<NilError>>
       /\ kafka.consumeErr # NilError =>
            kafka.result = <<"consume error: ", kafka.consumeErr>>
       /\ kafka.consumeErr = NilError =>
            /\ kafka.ctxErr = ContextCanceled
            /\ kafka.result = <<ContextCanceled>>

\* C24 witness: Run invoked Consume twice, the context was cancelled during the
\* second, which returned nil, and Run returned the context's error.
C24_Witness ==
  /\ kafka.run = "returned"
  /\ kafka.rounds = 2
  /\ kafka.consumeErr = NilError
  /\ kafka.result = <<ContextCanceled>>

\* The message opens with "[", a non-empty tag and a "]".
Bracketed(msg) ==
  /\ Len(msg) >= 3
  /\ msg[1] = "["
  /\ msg[2] # "]"
  /\ \E j \in 3..Len(msg) : msg[j] = "]"

\* C25: for a message that opens with "[", a non-empty tag and "]", extractPrefix
\* returns the tag (which holds no "]") and the rest, less one following space if
\* there is one; for every other message it returns ("", msg). On the test's
\* messages it returns ("prefix", "actual message"), ("", "no prefix message")
\* and ("p", "msg").
C25_ExtractPrefix ==
  render.fn = "extractPrefix" =>
    LET msg == render.in
        tag == render.out[1]
        rest == render.out[2]
        after == SubSeq(msg, Len(tag) + 3, Len(msg))
    IN  /\ Bracketed(msg) =>
             /\ tag # <<>>
             /\ "]" \notin Range(tag)
             /\ SubSeq(msg, 1, Len(tag) + 2) = <<"[">> \o tag \o <<"]">>
             /\ after # <<>> /\ after[1] = " " => rest = Tail(after)
             /\ after = <<>> \/ after[1] # " " => rest = after
        /\ ~Bracketed(msg) => tag = <<>> /\ rest = msg
        /\ msg = <<"[", "p", "r", "e", "f", "i", "x", "]", " ", "a", "c", "t", "u", "a", "l", " ", "m", "e", "s", "s", "a", "g", "e">> =>
             tag = <<"p", "r", "e", "f", "i", "x">> /\ rest = <<"a", "c", "t", "u", "a", "l", " ", "m", "e", "s", "s", "a", "g", "e">>
        /\ msg = <<"[", "p", "]", "m", "s", "g">> => tag = <<"p">> /\ rest = <<"m", "s", "g">>

\* C25 witness: extractPrefix has split "[p] ": the tag is "p", the one space is
\* consumed and nothing is left.
C25_Witness ==
  /\ render.fn = "extractPrefix"
  /\ render.in = <<"[", "p", "]", " ">>
  /\ render.out = <<<<"p">>, <<>>>>

\* C26 as stated: needsQuoting(s) is true exactly when s holds a character
\* outside [A-Za-z0-9_.-].
C26_QuotedIffOutsideClassWithUnderscore ==
  render.fn = "needsQuoting" =>
    (render.out <=>
       \E i \in DOMAIN render.in :
         render.in[i] \notin LowerCase \cup UpperCase \cup Digits \cup {"_", ".", "-"})

\* C26, amended: needsQuoting(s) is true exactly when s holds a character outside
\* [A-Za-z0-9.-]; the empty string is not quoted and a string with an underscore
\* is, as in TestNeedsQuoting.
C26_QuotedIffOutsideClass ==
  render.fn = "needsQuoting" =>
    /\ render.out <=>
         \E i \in DOMAIN render.in :
           render.in[i] \notin LowerCase \cup UpperCase \cup Digits \cup {".", "-"}
    /\ render.in = <<>> => ~render.out
    /\ render.in = <<"u", "n", "d", "e", "r", "s", "c", "o", "r", "e", "_", "o", "k">> => render.out
    /\ render.in = <<"d", "a", "s", "h", "-", "o", "k">> => ~render.out

\* C26 witness: needsQuoting has been called on a string of safe characters with
\* one underscore among them and returned true.
C26_Witness ==
  /\ render.fn = "needsQuoting"
  /\ render.in = <<"a", "_", "0">>
  /\ render.out

\* The reserved names a field map holds.
Clashing(data) == {ReservedKeys[i] : i \in DOMAIN ReservedKeys} \cap DOMAIN data

CompletedStatuses(r) ==
  {log[r][i].data["status"] : i \in {j \in DOMAIN log[r] : log[r][j].msg = "request completed"}}

\* C29: the status logged in the "request completed" record is the status the
\* client receives, also when a status was set on the writer before the
\* middleware wrapped it and when the handler calls WriteHeader more than once.
C29_LoggedStatusIsClientStatus ==
  \A r \in Reqs : pc[r] = "done" => CompletedStatuses(r) = {ClientStatus(gw[r])}
====
